---- MODULE Spec2Model ----
(***************************************************************************)
(* The chat turn handler of src/app/api/chat/route.ts (the second POST of  *)
(* the file, lines 709-1008) with the tool executors of getFunctions, the  *)
(* token check, the context window and the tool-call loop.                 *)
(*                                                                         *)
(* JavaScript values are encoded so that TLC can compare them:             *)
(*   a string s            <<"str", s>>                                    *)
(*   null / undefined      <<"null">>                                      *)
(*   a serialized payload  <<"json", kind, ...>>                           *)
(*   a parsed JSON value   [kind |-> "object" | "null", obj |-> pairs]     *)
(*   where pairs is a set of <<key, literal>>, each literal a JSON literal *)
(*   written as a string ("true", "false", "yes", ...).                    *)
(***************************************************************************)
EXTENDS Integers, Sequences, FiniteSets, TLC

----------------------------------------------------------------------------
(* Bounds of the model *)

MaxTurns == 2
MaxIncoming == 2
MaxBatch == 2
MaxContextLimit == 3
MaxTicks == 1

(* Program constants *)

SAFETY_LIMIT == 5
TOOL_CACHE_TTL_MS == 5000
TOKEN_CACHE_TTL_MS == 60000
MAX_STORED_MESSAGES == 64
MAX_CONTEXT_MESSAGES == 16

----------------------------------------------------------------------------
(* JavaScript values *)

Str(s) == <<"str", s>>
Null == <<"null">>

\* !v for a message content: null, undefined and "" are falsy
Falsy(v) == v = Null \/ v = Str("")

\* v.trim() === '' for a string content
BlankStr(v) == v = Str("") \/ v = Str(" ")

\* JSON literals: the words below are the non-string values, "" is the empty
\* string, "undefined" an absent field, and any other literal is a string
NonStringLits == {"true", "false", "null", "0", "1", "undefined"}
IsStringLit(l) == l \notin NonStringLits

\* truthiness of a JSON literal (the value of an argument field)
TruthyLit(l) == l \notin {"false", "null", "0", "", "undefined"}

JObject(pairs) == [kind |-> "object", obj |-> pairs]
JNull == [kind |-> "null", obj |-> {}]

\* key in args
HasKey(args, k) == \E p \in args.obj : p[1] = k

\* args.key, "undefined" when the key is absent
Field(args, k) == IF HasKey(args, k) THEN (CHOOSE p \in args.obj : p[1] = k)[2] ELSE "undefined"

\* !args.key
FalsyField(args, k) == ~HasKey(args, k) \/ ~TruthyLit(Field(args, k))

\* s.toLowerCase() on the literals the model uses
Lower(l) == IF l = "Subject" THEN "subject" ELSE l

----------------------------------------------------------------------------
(* Tool-call argument texts: JSON.parse and JSON.stringify *)

\* a raw arguments text: its written form and the value it denotes
ArgText(form, val) == [form |-> form, val |-> val]

\* argsString || '{}' then JSON.parse: a malformed text throws a SyntaxError
ParseThrows(text) == text.form = "malformed"
JSONparse(text) == IF text.form = "empty" THEN JObject({}) ELSE text.val

\* JSON.stringify of a parsed value: the compact text of the value
JSONstringify(val) == ArgText("compact", val)

\* `${name}|${stableArgs}`
RoundKey(name, args) == <<name, JSONstringify(args)>>

----------------------------------------------------------------------------
(* The tool executors of getFunctions(userToken)                           *)
(*                                                                         *)
(* An executor is applied to the parsed arguments, the caller's token, the *)
(* shared result cache, the clock and the answer the content service gives *)
(* if it is asked.  Its outcome tells whether it threw, the serialized     *)
(* result (or the error message), the requests it sent to the content      *)
(* service and the result cache it leaves.                                 *)

Outcome(threw, content, fetches, cache) ==
    [threw |-> threw, content |-> content, fetches |-> fetches, cache |-> cache]

\* a faulty variant: the message of the error is reported as a result
ErrorPayload_AsResult(msg) == <<"json", "result", msg>>

\* JSON.stringify({ error: error?.message || 'Unknown tool error' })
ErrorPayload(msg) == <<"json", "error", msg>>

ServiceRequest(method, path, token, data) ==
    [method |-> method, path |-> path, token |-> token, data |-> data]

\* toolResultCache.get(cacheKey)
CacheGet(cache, key) == {e \in cache : e.key = key}

\* toolResultCache.set(cacheKey, { expiryMs, payload })
CacheSet(cache, key, expiryMs, payload) ==
    {e \in cache : e.key # key} \cup {[key |-> key, expiryMs |-> expiryMs, payload |-> payload]}

isFindContentArgs(args) == HasKey(args, "query")

isCreateContentArgs(args) ==
    HasKey(args, "title") /\ HasKey(args, "description") /\ HasKey(args, "content_type")

isEditContentArgs(args) == HasKey(args, "content_id") /\ HasKey(args, "changes")

\* `find_content|${JSON.stringify({ query: args.query || '', type: postType.toLowerCase() })}`
FindCacheKey(args) ==
    LET postType == IF TruthyLit(Field(args, "type")) THEN Field(args, "type") ELSE "all"
        query == Field(args, "query")
    IN  <<"find_content", IF TruthyLit(query) THEN query ELSE "", Lower(postType)>>

\* a faulty variant: an entry is still served at the moment it expires
CacheFresh_AtExpiry(entry, clock) == entry.expiryMs >= clock

\* cached.expiryMs > now
CacheFresh(entry, clock) == entry.expiryMs > clock

\* data.content of a reply of the content service: an array of posts, an object
\* with its fields in their order (a field is an array of posts or something else),
\* or neither
ArrayContent(items) == [kind |-> "array", items |-> items, fields |-> <<>>]
ObjectContent(fields) == [kind |-> "object", items |-> <<>>, fields |-> fields]
NoContent == [kind |-> "null", items |-> <<>>, fields |-> <<>>]
ContentField(key, isArray, items) == [key |-> key, isArray |-> isArray, items |-> items]

\* a post as the content service sends it; "" is a field that is absent
Post(title, post_type, id, link, url, post_url) ==
    [title |-> title, post_type |-> post_type, id |-> id, link |-> link, url |-> url,
     post_url |-> post_url]

\* Array.isArray(content[key]) ? content[key] : []
Bucket(content, key) ==
    IF \E k \in 1..Len(content.fields) : content.fields[k].key = key /\ content.fields[k].isArray
    THEN content.fields[CHOOSE k \in 1..Len(content.fields) : content.fields[k].key = key].items
    ELSE <<>>

\* the bucket the lower-case type selects
BucketKey(t) ==
    IF t \in {"problem", "problems"} THEN "problems"
    ELSE IF t \in {"idea", "ideas"} THEN "ideas"
    ELSE "subjects"

\* Object.values(content).find(v => Array.isArray(v)) || []
FirstArray(content) ==
    LET arrays == {k \in 1..Len(content.fields) : content.fields[k].isArray}
    IN  IF arrays = {} THEN <<>>
        ELSE content.fields[CHOOSE k \in arrays : \A j \in arrays : k <= j].items

\* the source list of the normalization: the flat list; else the bucket of the
\* type, or if that is empty the first array-valued field, if that is not empty
Source(content, t) ==
    IF content.kind = "array" THEN content.items
    ELSE IF content.kind = "object"
    THEN IF Bucket(content, BucketKey(t)) = <<>> /\ FirstArray(content) # <<>>
         THEN FirstArray(content)
         ELSE Bucket(content, BucketKey(t))
    ELSE <<>>

\* source.map(item => ({ title, type: item.post_type || t, id, link: link || url || post_url }))
ItemOf(item, t) ==
    [title |-> item.title,
     type |-> IF item.post_type # "" THEN item.post_type ELSE t,
     id |-> item.id,
     link |-> IF item.link # "" THEN item.link
              ELSE IF item.url # "" THEN item.url
              ELSE item.post_url]

\* the response normalization of find_content: the items of the body for type t
FindItems(body, t) ==
    <<"json", "items", [k \in 1..Len(Source(body, t)) |-> ItemOf(Source(body, t)[k], t)]>>

find_content(args, userToken, cache, clock, resp) ==
    IF args.kind # "object" THEN Outcome(TRUE, ErrorPayload("TypeError"), <<>>, cache)
    ELSE IF ~isFindContentArgs(args)
    THEN Outcome(TRUE, ErrorPayload("Invalid arguments for content search"), <<>>, cache)
    ELSE LET postType == IF TruthyLit(Field(args, "type")) THEN Field(args, "type") ELSE "all"
             query == Field(args, "query")
         IN  IF ~IsStringLit(postType) THEN Outcome(TRUE, ErrorPayload("TypeError"), <<>>, cache)
             ELSE LET cacheKey == FindCacheKey(args)
                      cached == CacheGet(cache, cacheKey)
                      request == ServiceRequest("GET", <<"/api/v1/posts">>, userToken, <<postType, query>>)
                  IN  IF \E e \in cached : CacheFresh(e, clock)
                      THEN Outcome(FALSE, (CHOOSE e \in cached : TRUE).payload, <<>>, cache)
                      ELSE IF ~resp.ok
                      THEN Outcome(TRUE, ErrorPayload("API request failed"), <<request>>, cache)
                      ELSE LET result == FindItems(resp.body, Lower(postType))
                           IN  Outcome(FALSE, result, <<request>>,
                                       CacheSet(cache, cacheKey, clock + TOOL_CACHE_TTL_MS, result))

\* if (!args.confirm): the preview is returned unless confirm is truthy
NotConfirmed(args) == FalsyField(args, "confirm")

create_content(args, userToken, cache, clock, resp) ==
    IF args.kind # "object" THEN Outcome(TRUE, ErrorPayload("TypeError"), <<>>, cache)
    ELSE IF ~isCreateContentArgs(args)
    THEN Outcome(TRUE, ErrorPayload("Invalid arguments for content creation"), <<>>, cache)
    ELSE LET description == Field(args, "description")
             request == ServiceRequest("POST", <<"/api/v1/posts">>, userToken,
                            <<Field(args, "title"), Field(args, "content_type"), description>>)
         IN  IF TruthyLit(description) /\ ~IsStringLit(description)
             THEN Outcome(TRUE, ErrorPayload("TypeError"), <<>>, cache)
             ELSE IF NotConfirmed(args)
             THEN Outcome(FALSE, <<"json", "preview", "requires_confirmation",
                                   Field(args, "title"), description>>, <<>>, cache)
             ELSE IF ~resp.ok
             THEN Outcome(TRUE, ErrorPayload("API request failed"), <<request>>, cache)
             ELSE Outcome(FALSE, <<"json", "post", resp.body>>, <<request>>, cache)

\* const { title, description } = changes throws when changes is null
ChangesThrows(changes) == changes \in {"null", "undefined"}
ChangesTitle(changes) == IF changes \in {"{title}", "{title,description}"} THEN "t" ELSE "undefined"
ChangesDescription(changes) ==
    IF changes \in {"{description}", "{title,description}"} THEN "d" ELSE "undefined"

edit_content(args, userToken, cache, clock, resp) ==
    IF args.kind # "object" THEN Outcome(TRUE, ErrorPayload("TypeError"), <<>>, cache)
    ELSE IF ~isEditContentArgs(args)
    THEN Outcome(TRUE, ErrorPayload("Invalid arguments for content editing"), <<>>, cache)
    ELSE LET changes == Field(args, "changes")
             content_id == Field(args, "content_id")
             request == ServiceRequest("PUT", <<"/posts", content_id, "api_update">>, userToken,
                            <<ChangesTitle(changes), ChangesDescription(changes)>>)
         IN  IF ChangesThrows(changes)
             THEN Outcome(TRUE, ErrorPayload("TypeError"), <<>>, cache)
             ELSE IF NotConfirmed(args)
             THEN Outcome(FALSE, <<"json", "preview", "requires_confirmation",
                                   content_id, changes>>, <<>>, cache)
             ELSE IF ~resp.ok
             THEN Outcome(TRUE, ErrorPayload("API request failed"), <<request>>, cache)
             ELSE Outcome(FALSE, <<"json", "post", resp.body>>, <<request>>, cache)

RegisteredTools == {"find_content", "create_content", "edit_content"}

\* await (funcs as any)[name](args): a name without executor throws a TypeError
CallFunction(name, args, userToken, cache, clock, resp) ==
    CASE name = "find_content" -> find_content(args, userToken, cache, clock, resp)
      [] name = "create_content" -> create_content(args, userToken, cache, clock, resp)
      [] name = "edit_content" -> edit_content(args, userToken, cache, clock, resp)
      [] OTHER -> Outcome(TRUE, ErrorPayload("TypeError"), <<>>, cache)

----------------------------------------------------------------------------
(* Messages, the context window and the conversation store *)

Msg(role, content) ==
    [role |-> role, content |-> content, tool_calls |-> <<>>, tool_call_id |-> "", name |-> ""]

\* { role: 'system', content: SYSTEM_PROMPT }
SystemPromptMsg == Msg("system", Str("SYSTEM_PROMPT"))

\* the message of a completion response
AssistantMsg(content, tool_calls) ==
    [role |-> "assistant", content |-> content, tool_calls |-> tool_calls,
     tool_call_id |-> "", name |-> ""]

\* a faulty variant: the id of the answered call is left out
ToolMsg_NoId(tool_call_id, name, content) ==
    [role |-> "tool", content |-> content, tool_calls |-> <<>>,
     tool_call_id |-> "", name |-> name]

\* toolResults.push({ tool_call_id, role: 'tool', name, content })
ToolMsg(tool_call_id, name, content) ==
    [role |-> "tool", content |-> content, tool_calls |-> <<>>,
     tool_call_id |-> tool_call_id, name |-> name]

\* no message: response.data.choices[0].message is undefined
NoMessage == Msg("undefined", Null)

ToolCall(id, name, text) == [id |-> id, name |-> name, arguments |-> text]

Max(a, b) == IF a >= b THEN a ELSE b

\* joined.slice(-n) for n >= 1
SliceLast(seq, n) == IF n >= Len(seq) THEN seq ELSE SubSeq(seq, Len(seq) - n + 1, Len(seq))

\* existingHistory.some(m => m.role === 'system')
hasSystem(existingHistory) == \E k \in DOMAIN existingHistory : existingHistory[k].role = "system"

baseHistory(existingHistory) ==
    IF hasSystem(existingHistory) THEN existingHistory ELSE <<SystemPromptMsg>> \o existingHistory

\* a faulty variant: the window is cut without regard to the system message
BuildRequestMessages_PlainCut(existingHistory, messages, limit) ==
    LET joined == baseHistory(existingHistory) \o messages
    IN  IF Len(joined) <= limit THEN joined ELSE <<joined[1]>> \o SliceLast(joined, limit)

\* the context of the first completion request
BuildRequestMessages(existingHistory, messages, limit) ==
    LET joined == baseHistory(existingHistory) \o messages
    IN  IF Len(joined) <= limit THEN joined
        ELSE LET system == IF Len(joined) > 0 /\ joined[1].role = "system" THEN <<joined[1]>> ELSE <<>>
                 tail == SliceLast(joined, Max(1, limit - Len(system)))
             IN  system \o tail

\* conversationStore.get(id) || []
StoreGet(store, id) ==
    IF \E e \in store : e.id = id THEN (CHOOSE e \in store : e.id = id).history ELSE <<>>

\* the history conversationStore.append(id, messages, max) leaves: the messages are
\* appended and the history is capped at max, a leading system message preserved
AppendedHistory(history, messages, max) ==
    LET all == history \o messages
    IN  IF Len(all) <= max THEN all
        ELSE IF all[1].role = "system" THEN <<all[1]>> \o SliceLast(all, Max(1, max - 1))
        ELSE SliceLast(all, Max(1, max))

StoreAppend(store, id, messages, max) ==
    {e \in store : e.id # id}
        \cup {[id |-> id, history |-> AppendedHistory(StoreGet(store, id), messages, max)]}

----------------------------------------------------------------------------
(* The state *)

VARIABLES
    conversationStore,  \* utils/memory: the entries {id, history}
    tokenCheckCache,    \* the entries {token, expiryMs, remaining}
    toolResultCache,    \* the entries {key, expiryMs, payload}
    now,                \* Date.now()
    ticks,              \* how often the clock advanced
    apiKey,             \* whether process.env.OPENROUTER_API_KEY is set
    maxContext,         \* MAX_CONTEXT_MESSAGES, read from the environment
    pc,                 \* where the handler is
    turn,               \* the number of turn requests received
    body,               \* the parsed request body
    id,                 \* conversationId || randomUUID()
    checkedAt,          \* const now = Date.now() of the token check
    requestMessages,
    assistantMessage,
    safetyCounter,
    toolIndex,          \* i + 1 of the for loop over toolCalls
    toolResults,
    roundMemo,          \* the entries {key, name, content}
    updatedMessages,
    usedTokens,
    response,           \* the NextResponse of the turn
    decrements,         \* the requests sent to /tokens/decrease
    saved,              \* the calls of saveConversationToDisk
    quotaReply,         \* the answer of the quota service to this turn's token check
    backendReply,       \* the last answer of the completion backend in this turn
    backendRequests,    \* completion requests sent in this turn
    inFlight,           \* the completion request awaiting its answer
    roundInvocations,   \* the executor invocations of the current round
    roundFetches,       \* the content-service requests of the current round
    toolExecutions,     \* the executor invocations of this turn
    usageLog,           \* the usage objects of the completion answers of this turn
    procs,              \* concurrent requests: where each one is and what it awaits
    cacheWrites,        \* the writes to the two caches: which map, key, when, expiry
    historyResponse,    \* the last NextResponse of the history route, with its request
    formatter,          \* a description on its way through toRichHtml and htmlToPlainText
    contentReply        \* the reply of the content service to the fetch of an executor
                        \* that was called on its own

vars == <<conversationStore, tokenCheckCache, toolResultCache, now, ticks, apiKey, maxContext,
          pc, turn, body, id, checkedAt, requestMessages, assistantMessage, safetyCounter,
          toolIndex, toolResults, roundMemo, updatedMessages, usedTokens, response,
          decrements, saved, quotaReply, backendReply, backendRequests, inFlight,
          roundInvocations, roundFetches, toolExecutions, usageLog, procs, cacheWrites,
          historyResponse, formatter, contentReply>>

\* the state of the concurrent requests
raceVars == <<procs, cacheWrites>>

\* the state the turn handler never touches
otherVars == <<raceVars, historyResponse, formatter, contentReply>>

NoId == <<"none">>
ClientId(c) == <<"client", c>>
\* randomUUID(): an id no client sent and no earlier turn got
randomUUID(n) == <<"uuid", n>>

RequestBody(valid, messages, conversationId, userToken) ==
    [valid |-> valid, messages |-> messages, conversationId |-> conversationId,
     userToken |-> userToken]

NoBody == RequestBody(FALSE, <<>>, NoId, "")

Response(status, error, message, used, conversationId) ==
    [status |-> status, error |-> error, message |-> message, usedTokens |-> used,
     conversationId |-> conversationId]

NoResponse == Response(0, "", NoMessage, 0, NoId)

\* a body sent to the history route
HistoryRequest(valid, conversationId) == [valid |-> valid, conversationId |-> conversationId]

\* NextResponse.json({ error } | { messages, conversationId }, { status }) of the history route
HistoryResponse(request, status, error, messages, conversationId) ==
    [request |-> request, status |-> status, error |-> error, messages |-> messages,
     conversationId |-> conversationId]

CompletionRequest(messages, tool_choice) == [messages |-> messages, tool_choice |-> tool_choice]

NoRequest == CompletionRequest(<<>>, "")

NoReply == [received |-> FALSE, ok |-> FALSE, status |-> 0, message |-> NoMessage]
Reply(resp) ==
    [received |-> TRUE, ok |-> resp.ok, status |-> resp.status, message |-> resp.message]

\* response.data.usage; a field the backend does not report is 0
Usage(total_tokens, total, completion_tokens) ==
    [total_tokens |-> total_tokens, total |-> total, completion_tokens |-> completion_tokens]
NoUsage == Usage(0, 0, 0)

\* Number(usage.total_tokens || usage.total || usage.completion_tokens || 0)
UsageTotal(usage) ==
    IF usage.total_tokens # 0 THEN usage.total_tokens
    ELSE IF usage.total # 0 THEN usage.total
    ELSE usage.completion_tokens

\* a concurrent request that has not started
IdleProc == [pc |-> "idle", key |-> "", at |-> 0, n |-> 0]
Procs == {"p1", "p2"}

NoQuotaReply == [received |-> FALSE, throws |-> FALSE, ok |-> FALSE, tokens |-> 0]
QuotaReply(answer) ==
    [received |-> TRUE, throws |-> answer.throws, ok |-> answer.ok, tokens |-> answer.tokens]

\* the reply to the fetch of an executor, if it fetched
NoContentReply == [received |-> FALSE, ok |-> FALSE, body |-> NoContent]
ContentReply(resp) == [received |-> TRUE, ok |-> resp.ok, body |-> resp.body]

\* a description, its rich HTML and the plain text of that HTML, as far as computed
Formatted(at, input, html, text) == [pc |-> at, input |-> input, html |-> html, text |-> text]

\* the process starts with empty maps
InitState(limit, key) ==
    /\ conversationStore = {}
    /\ tokenCheckCache = {}
    /\ toolResultCache = {}
    /\ now = 0
    /\ ticks = 0
    /\ apiKey = key
    /\ maxContext = limit
    /\ pc = "idle"
    /\ turn = 0
    /\ body = NoBody
    /\ id = NoId
    /\ checkedAt = 0
    /\ requestMessages = <<>>
    /\ assistantMessage = NoMessage
    /\ safetyCounter = 0
    /\ toolIndex = 0
    /\ toolResults = <<>>
    /\ roundMemo = {}
    /\ updatedMessages = <<>>
    /\ usedTokens = 0
    /\ response = NoResponse
    /\ decrements = <<>>
    /\ saved = <<>>
    /\ quotaReply = NoQuotaReply
    /\ backendReply = NoReply
    /\ backendRequests = 0
    /\ inFlight = NoRequest
    /\ roundInvocations = <<>>
    /\ roundFetches = <<>>
    /\ toolExecutions = 0
    /\ usageLog = <<>>
    /\ procs = [p \in Procs |-> IdleProc]
    /\ cacheWrites = <<>>
    /\ historyResponse = HistoryResponse(HistoryRequest(FALSE, NoId), 0, "", <<>>, NoId)
    /\ contentReply = NoContentReply

\* no description is being formatted
InitWith(limit, key) ==
    InitState(limit, key) /\ formatter = Formatted("input", <<>>, <<>>, <<>>)

\* the process starts with empty maps; the API key is configured or not
Init == \E key \in BOOLEAN : InitWith(MAX_CONTEXT_MESSAGES, key)

----------------------------------------------------------------------------
(* How a step of the handler ends *)

\* a faulty variant: the incoming messages are stored although the turn failed
Failed_Persists(status, error) ==
    /\ pc' = "responded"
    /\ response' = Response(status, error, NoMessage, 0, NoId)
    /\ inFlight' = NoRequest
    /\ toolResults' = <<>>
    /\ roundMemo' = {}
    /\ updatedMessages' = <<>>
    /\ roundInvocations' = <<>>
    /\ roundFetches' = <<>>
    /\ toolIndex' = 0
    /\ conversationStore' = StoreAppend(conversationStore, id, body.messages, MAX_STORED_MESSAGES)
    /\ UNCHANGED <<decrements, saved, assistantMessage, safetyCounter, usedTokens, backendRequests>>

\* return NextResponse.json({ error }, { status }): nothing is stored or decremented.
\* The constants of the loop body (toolResults, roundMemo, updatedMessages) go out of
\* scope with it, and no completion request is in flight any more.
Failed(status, error) ==
    /\ pc' = "responded"
    /\ response' = Response(status, error, NoMessage, 0, NoId)
    /\ inFlight' = NoRequest
    /\ toolResults' = <<>>
    /\ roundMemo' = {}
    /\ updatedMessages' = <<>>
    /\ roundInvocations' = <<>>
    /\ roundFetches' = <<>>
    /\ toolIndex' = 0
    /\ UNCHANGED <<conversationStore, decrements, saved, assistantMessage, safetyCounter,
                   usedTokens, backendRequests>>

\* a faulty variant: a content of only whitespace is kept
FinalMessage_KeepsBlank(msg) ==
    IF Falsy(msg.content)
    THEN [msg EXCEPT !.content = Str("I've processed your request.")]
    ELSE msg

\* the fallback content of an assistant message that is empty or blank
FinalMessage(msg) ==
    IF Falsy(msg.content) \/ BlankStr(msg.content)
    THEN [msg EXCEPT !.content = IF msg.tool_calls # <<>>
                                 THEN Str("I've processed your request using the available tools.")
                                 ELSE Str("I've processed your request.")]
    ELSE msg

\* Math.max(1, usedTokens || 0)
DecrementBy(used) == Max(1, used)

\* after the loop: fallback, persist, decrement, respond
Finish(msg, used) ==
    LET final == FinalMessage(msg)
        store == StoreAppend(conversationStore, id, body.messages \o <<final>>, MAX_STORED_MESSAGES)
    IN  /\ pc' = "responded"
        /\ assistantMessage' = final
        /\ usedTokens' = used
        /\ conversationStore' = store
        /\ saved' = Append(saved, [id |-> id, history |-> StoreGet(store, id)])
        /\ decrements' = Append(decrements, [utoken |-> body.userToken,
                                             decrement_by |-> DecrementBy(used),
                                             outcome |-> "pending"])
        /\ response' = Response(200, "", final, Max(0, used), id)
        /\ inFlight' = NoRequest
        /\ toolResults' = <<>>
        /\ roundMemo' = {}
        /\ updatedMessages' = <<>>
        /\ roundInvocations' = <<>>
        /\ roundFetches' = <<>>
        /\ toolIndex' = 0
        /\ UNCHANGED <<safetyCounter, backendRequests>>

\* a faulty variant: the counter is declared inside the loop body and starts over
StartRound_Resets(msg, used) ==
    /\ pc' = "tools"
    /\ assistantMessage' = msg
    /\ usedTokens' = used
    /\ safetyCounter' = 1
    /\ toolIndex' = 1
    /\ toolResults' = <<>>
    /\ roundMemo' = {}
    /\ roundInvocations' = <<>>
    /\ roundFetches' = <<>>
    /\ updatedMessages' = <<>>
    /\ inFlight' = NoRequest
    /\ UNCHANGED <<conversationStore, decrements, saved, response, backendRequests>>

\* the body of the while loop starts: safetyCounter++, fresh toolResults and roundMemo
StartRound(msg, used) ==
    /\ pc' = "tools"
    /\ assistantMessage' = msg
    /\ usedTokens' = used
    /\ safetyCounter' = safetyCounter + 1
    /\ toolIndex' = 1
    /\ toolResults' = <<>>
    /\ roundMemo' = {}
    /\ roundInvocations' = <<>>
    /\ roundFetches' = <<>>
    /\ updatedMessages' = <<>>
    /\ inFlight' = NoRequest
    /\ UNCHANGED <<conversationStore, decrements, saved, response, backendRequests>>

\* a faulty variant: the counter is compared with <=, one round too many
LoopCondition_OffByOne(msg, counter) == msg.tool_calls # <<>> /\ counter <= SAFETY_LIMIT

\* while (assistantMessage.tool_calls && ... length > 0 && safetyCounter < 5)
LoopCondition(msg, counter) == msg.tool_calls # <<>> /\ counter < SAFETY_LIMIT

EnterLoop(msg, used) ==
    IF LoopCondition(msg, safetyCounter) THEN StartRound(msg, used) ELSE Finish(msg, used)

\* a faulty variant: the upstream status is dropped
FailureStatus_Always500(resp) == 500

\* error.response?.status || 500
FailureStatus(resp) == IF resp.status = 0 THEN 500 ELSE resp.status

\* a faulty variant: the total of the last answer replaces the sum
AddUsage_LastOnly(used, resp) == UsageTotal(resp.usage)

\* usedTokens += total of the usage the response reports
AddUsage(used, resp) == used + UsageTotal(resp.usage)

----------------------------------------------------------------------------
(* The turn handler POST *)

\* a faulty variant: an entry is used whatever its expiry
TokenCached_Always(cache, token, clock) == \E e \in cache : e.token = token

\* cached && !(cached.expiryMs < now)
TokenCached(cache, token, clock) == \E e \in cache : e.token = token /\ ~(e.expiryMs < clock)

\* the first completion request, or the failure of a missing API key
FirstCall(messages) ==
    IF apiKey
    THEN [pc |-> "awaitFirst", response |-> NoResponse, sent |-> 1,
          request |-> CompletionRequest(messages, "auto")]
    ELSE [pc |-> "responded",
          response |-> Response(500, "OpenRouter API key is not configured", NoMessage, 0, NoId),
          sent |-> 0, request |-> NoRequest]

\* a faulty variant: the token is not looked at
MissingToken_Never(b) == FALSE

\* if (!userToken)
MissingToken(b) == b.userToken = ""

\* a turn request arrives: body parsing, the 401 and the cached token check
Request(maxTurns, Bodies) ==
    \E b \in Bodies :
        LET newId == IF b.conversationId = NoId THEN randomUUID(turn + 1) ELSE b.conversationId
            context == BuildRequestMessages(StoreGet(conversationStore, newId), b.messages, maxContext)
            first == FirstCall(context)
            step == IF ~b.valid
                    THEN [pc |-> "responded", response |-> Response(500, "SyntaxError", NoMessage, 0, NoId),
                          sent |-> 0, request |-> NoRequest, messages |-> <<>>]
                    ELSE IF MissingToken(b)
                    THEN [pc |-> "responded",
                          response |-> Response(401, "Unauthenticated: missing user token", NoMessage, 0, NoId),
                          sent |-> 0, request |-> NoRequest, messages |-> <<>>]
                    ELSE IF TokenCached(tokenCheckCache, b.userToken, now)
                    THEN [pc |-> first.pc, response |-> first.response, sent |-> first.sent,
                          request |-> first.request, messages |-> context]
                    ELSE [pc |-> "awaitQuota", response |-> NoResponse, sent |-> 0,
                          request |-> NoRequest, messages |-> <<>>]
        IN  /\ pc \in {"idle", "responded"}
            /\ turn < maxTurns
            /\ turn' = turn + 1
            /\ body' = b
            /\ id' = IF b.valid THEN newId ELSE NoId
            /\ checkedAt' = now
            /\ pc' = step.pc
            /\ response' = step.response
            /\ backendRequests' = step.sent
            /\ inFlight' = step.request
            /\ requestMessages' = step.messages
            /\ assistantMessage' = NoMessage
            /\ safetyCounter' = 0
            /\ toolIndex' = 0
            /\ toolResults' = <<>>
            /\ roundMemo' = {}
            /\ updatedMessages' = <<>>
            /\ usedTokens' = 0
            /\ roundInvocations' = <<>>
            /\ roundFetches' = <<>>
            /\ toolExecutions' = 0
            /\ quotaReply' = NoQuotaReply
            /\ backendReply' = NoReply
            /\ usageLog' = <<>>
            /\ UNCHANGED <<conversationStore, tokenCheckCache, toolResultCache, now, ticks,
                           apiKey, maxContext, decrements, saved>>
            /\ UNCHANGED otherVars

\* a faulty variant: a balance of exactly zero is let through
QuotaRejects_ZeroPasses(answer) == ~answer.ok \/ answer.tokens < 0

\* tokensData?.tokens ?? 0, then !remaining || remaining <= 0
QuotaRejects(answer) == ~answer.ok \/ answer.tokens = 0 \/ answer.tokens <= 0

\* tokenCheckCache.set(userToken, { expiryMs, remaining })
TokenCacheSet(cache, token, expiryMs, remaining) ==
    {e \in cache : e.token # token}
        \cup {[token |-> token, expiryMs |-> expiryMs, remaining |-> remaining]}

\* the quota service answers the token check
QuotaResponse(Answers) ==
    \E answer \in Answers :
        LET context == BuildRequestMessages(StoreGet(conversationStore, id), body.messages, maxContext)
            first == FirstCall(context)
        IN  /\ pc = "awaitQuota"
            /\ IF answer.throws
               THEN /\ Failed(500, "Token verification failed")
                    /\ UNCHANGED <<tokenCheckCache, requestMessages>>
               ELSE IF QuotaRejects(answer)
               THEN /\ Failed(402, "Insufficient tokens")
                    /\ UNCHANGED <<tokenCheckCache, requestMessages>>
               ELSE /\ tokenCheckCache' =
                           TokenCacheSet(tokenCheckCache, body.userToken,
                                         checkedAt + TOKEN_CACHE_TTL_MS, answer.tokens)
                    /\ requestMessages' = context
                    /\ pc' = first.pc
                    /\ response' = first.response
                    /\ backendRequests' = backendRequests + first.sent
                    /\ inFlight' = first.request
                    /\ UNCHANGED <<conversationStore, decrements, saved, assistantMessage,
                                   safetyCounter, toolIndex, toolResults, roundMemo, usedTokens,
                                   updatedMessages, roundInvocations, roundFetches>>
            /\ quotaReply' = QuotaReply(answer)
            /\ UNCHANGED <<toolResultCache, now, ticks, apiKey, maxContext, turn, body, id,
                           checkedAt, toolExecutions, backendReply, usageLog>>
            /\ UNCHANGED otherVars

\* the completion backend answers the first request
FirstResponse(Responses) ==
    \E resp \in Responses :
        /\ pc = "awaitFirst"
        /\ IF ~resp.ok THEN Failed(FailureStatus(resp), "upstream")
           ELSE IF resp.message = NoMessage
           THEN Failed(500, "Invalid response from OpenRouter API")
           ELSE EnterLoop(resp.message, AddUsage(usedTokens, resp))
        /\ backendReply' = Reply(resp)
        /\ usageLog' = IF resp.ok THEN Append(usageLog, resp.usage) ELSE usageLog
        /\ UNCHANGED <<tokenCheckCache, toolResultCache, now, ticks, apiKey, maxContext, turn,
                       body, id, checkedAt, requestMessages, toolExecutions, quotaReply>>
        /\ UNCHANGED otherVars

\* an executor invocation: the position of the call, the tool, the parsed arguments
\* and whether the executor threw
Invocation(index, name, args, threw) ==
    [index |-> index, name |-> name, args |-> args, threw |-> threw]

\* roundMemo.has(roundKey) / roundMemo.get(roundKey)
MemoHas(memo, key) == \E e \in memo : e.key = key
MemoGet(memo, key) == CHOOSE e \in memo : e.key = key

\* roundMemo.set(roundKey, { name, content: payload })
MemoSet(memo, key, name, content) ==
    {e \in memo : e.key # key} \cup {[key |-> key, name |-> name, content |-> content]}

\* a faulty variant: the tool results are put before the assistant message
UpdatedMessages_ResultsFirst(context, msg, results) == context \o results \o <<msg>>

\* const updatedMessages = [...requestMessages, assistantMessage, ...toolResults]
UpdatedMessages(context, msg, results) == context \o <<msg>> \o results

\* one pass of the for loop over toolCalls; after the last call the follow-up request
\* is sent.  JSON.parse stands before the try block of the call.
ToolCallStep(ContentAnswers) ==
    \E resp \in ContentAnswers :
        LET toolCall == assistantMessage.tool_calls[toolIndex]
            name == toolCall.name
            args == JSONparse(toolCall.arguments)
            roundKey == RoundKey(name, args)
            reuse == MemoHas(roundMemo, roundKey)
            outcome == CallFunction(name, args, body.userToken, toolResultCache, now, resp)
            message == IF reuse
                       THEN ToolMsg(toolCall.id, MemoGet(roundMemo, roundKey).name,
                                    MemoGet(roundMemo, roundKey).content)
                       ELSE ToolMsg(toolCall.id, name, outcome.content)
            results == Append(toolResults, message)
            messages == UpdatedMessages(requestMessages, assistantMessage, results)
        IN  /\ pc = "tools"
            /\ IF ParseThrows(toolCall.arguments)
               THEN /\ Failed(500, "SyntaxError")
                    /\ UNCHANGED <<toolResultCache, toolExecutions>>
               ELSE /\ toolResults' = results
                    /\ roundMemo' = IF reuse \/ outcome.threw THEN roundMemo
                                    ELSE MemoSet(roundMemo, roundKey, name, outcome.content)
                    /\ toolResultCache' = IF reuse THEN toolResultCache ELSE outcome.cache
                    /\ roundInvocations' = IF reuse THEN roundInvocations
                                           ELSE Append(roundInvocations,
                                                       Invocation(toolIndex, name, args, outcome.threw))
                    /\ roundFetches' = IF reuse THEN roundFetches
                                       ELSE roundFetches \o outcome.fetches
                    /\ toolExecutions' = IF reuse THEN toolExecutions ELSE toolExecutions + 1
                    /\ IF toolIndex < Len(assistantMessage.tool_calls)
                       THEN /\ toolIndex' = toolIndex + 1
                            /\ UNCHANGED <<pc, updatedMessages, backendRequests, inFlight>>
                       ELSE /\ pc' = "awaitFollowup"
                            /\ updatedMessages' = messages
                            /\ backendRequests' = backendRequests + 1
                            /\ inFlight' = CompletionRequest(messages, "auto")
                            /\ UNCHANGED toolIndex
                    /\ UNCHANGED <<conversationStore, decrements, saved, response,
                                   assistantMessage, safetyCounter, usedTokens>>
            /\ UNCHANGED <<tokenCheckCache, now, ticks, apiKey, maxContext, turn, body, id,
                           checkedAt, requestMessages, quotaReply, backendReply, usageLog>>
            /\ UNCHANGED otherVars

\* a faulty variant: only a missing content counts, the empty string does not
NeedsForcedText_OnlyNull(msg) == msg.content = Null /\ msg.tool_calls = <<>>

\* !assistantMessage.content && no tool_calls: a text answer is forced
NeedsForcedText(msg) == Falsy(msg.content) /\ msg.tool_calls = <<>>

\* the completion backend answers a follow-up request
FollowupResponse(Responses) ==
    \E resp \in Responses :
        /\ pc = "awaitFollowup"
        /\ IF ~resp.ok THEN Failed(FailureStatus(resp), "upstream")
           ELSE IF resp.message = NoMessage THEN Failed(500, "TypeError")
           ELSE IF NeedsForcedText(resp.message)
           THEN /\ pc' = "awaitForced"
                /\ assistantMessage' = resp.message
                /\ usedTokens' = AddUsage(usedTokens, resp)
                /\ backendRequests' = backendRequests + 1
                /\ inFlight' = CompletionRequest(updatedMessages, "none")
                /\ UNCHANGED <<conversationStore, decrements, saved, response, safetyCounter,
                               toolIndex, toolResults, roundMemo, updatedMessages,
                               roundInvocations, roundFetches>>
           ELSE EnterLoop(resp.message, AddUsage(usedTokens, resp))
        /\ backendReply' = Reply(resp)
        /\ usageLog' = IF resp.ok THEN Append(usageLog, resp.usage) ELSE usageLog
        /\ UNCHANGED <<tokenCheckCache, toolResultCache, now, ticks, apiKey, maxContext, turn,
                       body, id, checkedAt, requestMessages, toolExecutions, quotaReply>>
        /\ UNCHANGED otherVars

\* a faulty variant: tool calls of the forced-text answer start another round
ForcedResponse_Loops(Responses) ==
    \E resp \in Responses :
        /\ pc = "awaitForced"
        /\ IF ~resp.ok THEN Failed(FailureStatus(resp), "upstream")
           ELSE IF resp.message = NoMessage THEN Failed(500, "TypeError")
           ELSE EnterLoop(resp.message, AddUsage(usedTokens, resp))
        /\ backendReply' = Reply(resp)
        /\ usageLog' = IF resp.ok THEN Append(usageLog, resp.usage) ELSE usageLog
        /\ UNCHANGED <<tokenCheckCache, toolResultCache, now, ticks, apiKey, maxContext, turn,
                       body, id, checkedAt, requestMessages, toolExecutions, quotaReply>>
        /\ UNCHANGED otherVars

\* the completion backend answers the forced-text request; break
ForcedResponse(Responses) ==
    \E resp \in Responses :
        /\ pc = "awaitForced"
        /\ IF ~resp.ok THEN Failed(FailureStatus(resp), "upstream")
           ELSE IF resp.message = NoMessage THEN Failed(500, "TypeError")
           ELSE Finish(resp.message, AddUsage(usedTokens, resp))
        /\ backendReply' = Reply(resp)
        /\ usageLog' = IF resp.ok THEN Append(usageLog, resp.usage) ELSE usageLog
        /\ UNCHANGED <<tokenCheckCache, toolResultCache, now, ticks, apiKey, maxContext, turn,
                       body, id, checkedAt, requestMessages, toolExecutions, quotaReply>>
        /\ UNCHANGED otherVars

\* a faulty variant: a decrement that failed is sent again
DecrementAnswer_Retries(Outcomes) ==
    \E i \in 1..Len(decrements), o \in Outcomes :
        /\ decrements[i].outcome = "pending"
        /\ decrements' = IF o = "ok"
                         THEN [decrements EXCEPT ![i].outcome = o]
                         ELSE Append([decrements EXCEPT ![i].outcome = o], decrements[i])
        /\ UNCHANGED <<conversationStore, tokenCheckCache, toolResultCache, now, ticks, apiKey,
                       maxContext, pc, turn, body, id, checkedAt, requestMessages,
                       assistantMessage, safetyCounter, toolIndex, toolResults, roundMemo,
                       updatedMessages, usedTokens, response, saved, quotaReply, backendReply,
                       backendRequests, inFlight, roundInvocations, roundFetches,
                       toolExecutions, usageLog>>
        /\ UNCHANGED otherVars

\* the fetch of the detached decrement block settles: the block awaits it, ignores
\* the status of the reply, and its catch only logs. The handler has not awaited the
\* block, so the outcome can arrive at any later moment.
DecrementAnswer(Outcomes) ==
    \E i \in 1..Len(decrements), o \in Outcomes :
        /\ decrements[i].outcome = "pending"
        /\ decrements' = [decrements EXCEPT ![i].outcome = o]
        /\ UNCHANGED <<conversationStore, tokenCheckCache, toolResultCache, now, ticks, apiKey,
                       maxContext, pc, turn, body, id, checkedAt, requestMessages,
                       assistantMessage, safetyCounter, toolIndex, toolResults, roundMemo,
                       updatedMessages, usedTokens, response, saved, quotaReply, backendReply,
                       backendRequests, inFlight, roundInvocations, roundFetches,
                       toolExecutions, usageLog>>
        /\ UNCHANGED otherVars

\* Date.now() advances
Elapse(Steps) ==
    \E d \in Steps :
        /\ ticks < MaxTicks
        /\ ticks' = ticks + 1
        /\ now' = now + d
        /\ UNCHANGED <<conversationStore, tokenCheckCache, toolResultCache, apiKey, maxContext,
                       pc, turn, body, id, checkedAt, requestMessages, assistantMessage,
                       safetyCounter, toolIndex, toolResults, roundMemo, updatedMessages,
                       usedTokens, response, decrements, saved, quotaReply, backendReply,
                       backendRequests, inFlight, roundInvocations, roundFetches,
                       toolExecutions, usageLog>>
        /\ UNCHANGED otherVars

\* time passes while the handler awaits or between two turns
Tick(Steps) == pc # "idle" /\ Elapse(Steps)

----------------------------------------------------------------------------
(* The inputs: what clients, the quota service, the completion backend and *)
(* the content service may send                                            *)

SeqsUpTo(S, n) == UNION {[1..k -> S] : k \in 1..n}

Template(name, text) == [name |-> name, arguments |-> text]

\* the ids the backend gives the tool calls of one response, unique within it
CallIds == <<"call_b", "call_a", "call_c", "call_d">>

BatchOf(templates) ==
    [k \in 1..Len(templates) |-> ToolCall(CallIds[k], templates[k].name, templates[k].arguments)]

Batches(Templates, n) == {BatchOf(t) : t \in SeqsUpTo(Templates, n)}

WithConfirm(pairs, confirm) ==
    JObject(pairs \cup (IF confirm = "undefined" THEN {} ELSE {<<"confirm", confirm>>}))

FindArgs == JObject({<<"query", "q1">>})
CreateArgs(confirm) ==
    WithConfirm({<<"title", "T">>, <<"description", "D">>, <<"content_type", "subject">>}, confirm)
EditArgs(confirm) == WithConfirm({<<"content_id", "p1">>, <<"changes", "{title}">>}, confirm)

\* the tool calls the backend requests in the turn specification
LoopTemplates ==
    { Template("find_content", ArgText("compact", FindArgs)),
      Template("find_content", ArgText("malformed", JObject({}))),
      Template("create_content", ArgText("compact", CreateArgs("true"))),
      Template("get_current_weather", ArgText("compact", FindArgs)) }

Failure(status) == [ok |-> FALSE, status |-> status, message |-> NoMessage, usage |-> NoUsage]
Success(message, usage) == [ok |-> TRUE, status |-> 200, message |-> message, usage |-> usage]

\* the answers of the completion backend: failures (0: no response at all), a
\* response without message, and assistant messages with or without tool calls
CompletionAnswers(BatchSet, Usages) ==
    {Failure(st) : st \in {0, 402, 429}}
        \cup {Success(NoMessage, NoUsage)}
        \cup {Success(AssistantMsg(c, b), u) :
                c \in {Str(""), Str("answer")}, b \in BatchSet \cup {<<>>}, u \in Usages}
        \cup {Success(AssistantMsg(Str(" "), <<>>), u) : u \in Usages}

LoopAnswers == CompletionAnswers(Batches(LoopTemplates, MaxBatch), {Usage(1, 0, 0)})

QuotaAnswer(throws, ok, tokens) == [throws |-> throws, ok |-> ok, tokens |-> tokens]

QuotaAnswers ==
    { QuotaAnswer(TRUE, FALSE, 0), QuotaAnswer(FALSE, FALSE, 0), QuotaAnswer(FALSE, TRUE, 0),
      QuotaAnswer(FALSE, TRUE, 0 - 1), QuotaAnswer(FALSE, TRUE, 5) }

ContentAnswer(ok, content) == [ok |-> ok, body |-> content]

\* a reply with one post
R1 == ArrayContent(<<Post("r1", "", "1", "", "", "")>>)

\* the answers of the content service: a success with its body, or a non-success status
ContentAnswers(Contents) ==
    {ContentAnswer(TRUE, b) : b \in Contents} \cup {ContentAnswer(FALSE, NoContent)}

MalformedBody == RequestBody(FALSE, <<>>, NoId, "")

\* the requests of the turn specification: one user message
LoopBodies ==
    {MalformedBody}
        \cup {RequestBody(TRUE, <<Msg("user", Str("m1"))>>, c, t) :
                c \in {ClientId("c1")}, t \in {"", "u1"}}

----------------------------------------------------------------------------
(* The turn specification: one turn, with every tool call of LoopTemplates *)

Next ==
    \/ Request(1, LoopBodies)
    \/ QuotaResponse(QuotaAnswers)
    \/ FirstResponse(LoopAnswers)
    \/ ToolCallStep(ContentAnswers({R1}))
    \/ FollowupResponse(LoopAnswers)
    \/ ForcedResponse(LoopAnswers)

Spec == Init /\ [][Next]_vars

----------------------------------------------------------------------------
(* The conversation specification: several turns of one client on the      *)
(* store, with every short list of incoming messages and every configured  *)
(* context limit; the backend answers with plain messages                  *)

\* the k-th incoming message of a request, sent with the given role
Incoming(role, k) == Msg(role, Str(<<"m1", "m2", "m3", "m4">>[k]))

IncomingLists(n) ==
    {<<>>} \cup UNION {{[k \in 1..len |-> Incoming(roles[k], k)] : roles \in [1..len -> {"user", "system"}]} :
                        len \in 1..n}

ConvBodies ==
    {MalformedBody}
        \cup {RequestBody(TRUE, <<Incoming("user", 1)>>, c, t) :
                c \in {NoId, ClientId("c1")}, t \in {"", "u1"}}
        \cup {RequestBody(TRUE, m, ClientId("c1"), "u1") : m \in IncomingLists(MaxIncoming)}

PlainAnswers == CompletionAnswers({}, {Usage(1, 0, 0)})

InitConv == \E limit \in 1..MaxContextLimit : InitWith(limit, TRUE)

NextConv ==
    \/ Request(MaxTurns, ConvBodies)
    \/ QuotaResponse(QuotaAnswers)
    \/ FirstResponse(PlainAnswers)

SpecConv == InitConv /\ [][NextConv]_vars

----------------------------------------------------------------------------
(* The executor specification: the executors of getFunctions applied to    *)
(* every argument shape, by two users, while the clock advances            *)

ConfirmValues == {"undefined", "true", "false", "yes", "0"}

ToolArguments ==
    {FindArgs, JObject({<<"query", "q1">>, <<"type", "Subject">>}),
     JObject({<<"query", "q1">>, <<"type", "subject">>}), JObject({}), JNull}
        \cup {CreateArgs(c) : c \in ConfirmValues}
        \cup {EditArgs(c) : c \in ConfirmValues}
        \cup {JObject({<<"content_id", "p1">>, <<"changes", "null">>, <<"confirm", "true">>})}

ToolNames == RegisteredTools \cup {"get_current_weather"}

\* funcs = getFunctions(userToken); await funcs[name](args)
Execute(Names, Arguments, Tokens, Answers) ==
    \E name \in Names, args \in Arguments, token \in Tokens, resp \in Answers :
        LET outcome == CallFunction(name, args, token, toolResultCache, now, resp)
        IN  /\ pc \in {"idle", "executed"}
            /\ pc' = "executed"
            /\ body' = RequestBody(TRUE, <<>>, NoId, token)
            /\ toolResultCache' = outcome.cache
            /\ toolResults' = <<ToolMsg("", name, outcome.content)>>
            /\ roundInvocations' = <<Invocation(1, name, args, outcome.threw)>>
            /\ roundFetches' = outcome.fetches
            /\ toolExecutions' = IF outcome.threw THEN 0 ELSE 1
            /\ contentReply' = IF outcome.fetches # <<>> THEN ContentReply(resp) ELSE NoContentReply
            /\ UNCHANGED <<conversationStore, tokenCheckCache, now, ticks, apiKey, maxContext,
                           turn, id, checkedAt, requestMessages, assistantMessage,
                           safetyCounter, toolIndex, roundMemo, updatedMessages, usedTokens,
                           response, decrements, saved, quotaReply, backendReply,
                           backendRequests, inFlight, usageLog>>
            /\ UNCHANGED <<raceVars, historyResponse, formatter>>

InitTools == InitWith(MAX_CONTEXT_MESSAGES, TRUE)

NextTools ==
    \/ Execute(ToolNames, ToolArguments, {"u1", "u2"}, ContentAnswers({R1}))
    \/ Tick({1, TOOL_CACHE_TTL_MS})

SpecTools == InitTools /\ [][NextTools]_vars

----------------------------------------------------------------------------
(* The usage specification: one turn with one tool and answers that report *)
(* their usage in different fields, or not at all                          *)

UsageTemplates == {Template("find_content", ArgText("compact", FindArgs))}

ReportedUsages == {NoUsage, Usage(2, 0, 1), Usage(0, 0, 3)}

UsageAnswers == CompletionAnswers(Batches(UsageTemplates, 1), ReportedUsages)

UsageBodies == {RequestBody(TRUE, <<Msg("user", Str("m1"))>>, ClientId("c1"), "u1")}

InitUsage == InitWith(MAX_CONTEXT_MESSAGES, TRUE)

NextUsage ==
    \/ Request(1, UsageBodies)
    \/ QuotaResponse({QuotaAnswer(FALSE, TRUE, 5)})
    \/ FirstResponse(UsageAnswers)
    \/ ToolCallStep(ContentAnswers({R1}))
    \/ FollowupResponse(UsageAnswers)
    \/ ForcedResponse(UsageAnswers)

SpecUsage == InitUsage /\ [][NextUsage]_vars

----------------------------------------------------------------------------
(* The concurrent specification: two requests that are handled at the same *)
(* time.  Each await of the handler is a point where the other request may *)
(* run; the token check and find_content read their cache before the await *)
(* of the fetch and write it after.                                        *)

MaxRequests == 1

\* the state of one turn, which the concurrent requests leave alone
turnVars ==
    <<conversationStore, apiKey, maxContext, pc, turn, body, id, checkedAt, requestMessages,
      assistantMessage, safetyCounter, toolIndex, toolResults, roundMemo, updatedMessages,
      usedTokens, response, decrements, saved, quotaReply, backendReply, backendRequests,
      inFlight, roundInvocations, roundFetches, toolExecutions, usageLog>>

Proc(at, key, where, started) == [pc |-> where, key |-> key, at |-> at, n |-> started]

CacheWrite(cache, key, at, expiryMs) ==
    [cache |-> cache, key |-> key, at |-> at, expiryMs |-> expiryMs]

\* request p reaches the token check: const now = Date.now(), the lookup, the fetch
TokenCheckStart(p, Tokens) ==
    \E token \in Tokens :
        /\ procs[p].pc \in {"idle", "done", "passed", "rejected"}
        /\ procs[p].n < MaxRequests
        /\ procs' = [procs EXCEPT ![p] =
                        Proc(now, token,
                             IF TokenCached(tokenCheckCache, token, now)
                             THEN "passed" ELSE "awaitQuota",
                             procs[p].n + 1)]
        /\ UNCHANGED <<tokenCheckCache, toolResultCache, cacheWrites, now, ticks>>
        /\ UNCHANGED <<turnVars, historyResponse, formatter, contentReply>>

\* the quota service answers request p: the request goes on to the completion
\* backend, or it is answered with 402 or 500
TokenCheckAnswer(p, Answers) ==
    \E answer \in Answers :
        LET expiryMs == procs[p].at + TOKEN_CACHE_TTL_MS
            stores == ~answer.throws /\ ~QuotaRejects(answer)
        IN  /\ procs[p].pc = "awaitQuota"
            /\ procs' = [procs EXCEPT ![p].pc = IF stores THEN "passed" ELSE "rejected"]
            /\ tokenCheckCache' =
                   IF stores
                   THEN TokenCacheSet(tokenCheckCache, procs[p].key, expiryMs, answer.tokens)
                   ELSE tokenCheckCache
            /\ cacheWrites' =
                   IF stores
                   THEN Append(cacheWrites, CacheWrite("tokenCheckCache", procs[p].key, now, expiryMs))
                   ELSE cacheWrites
            /\ UNCHANGED <<toolResultCache, now, ticks>>
            /\ UNCHANGED <<turnVars, historyResponse, formatter, contentReply>>

\* request p executes find_content: const now = Date.now(), the lookup, the fetch
FindStart(p, Arguments) ==
    \E args \in Arguments :
        LET cacheKey == FindCacheKey(args)
            hit == \E e \in CacheGet(toolResultCache, cacheKey) : CacheFresh(e, now)
        IN  /\ procs[p].pc \in {"idle", "done", "passed", "rejected"}
            /\ procs[p].n < MaxRequests
            /\ procs' = [procs EXCEPT ![p] =
                            Proc(now, cacheKey, IF hit THEN "done" ELSE "awaitContent",
                                 procs[p].n + 1)]
            /\ UNCHANGED <<tokenCheckCache, toolResultCache, cacheWrites, now, ticks>>
            /\ UNCHANGED <<turnVars, historyResponse, formatter, contentReply>>

\* the content service answers the find_content of request p
FindAnswer(p, Answers) ==
    \E resp \in Answers :
        LET expiryMs == procs[p].at + TOOL_CACHE_TTL_MS
        IN  /\ procs[p].pc = "awaitContent"
            /\ procs' = [procs EXCEPT ![p].pc = "done"]
            /\ toolResultCache' =
                   IF resp.ok
                   THEN CacheSet(toolResultCache, procs[p].key, expiryMs,
                                 FindItems(resp.body, procs[p].key[3]))
                   ELSE toolResultCache
            /\ cacheWrites' =
                   IF resp.ok
                   THEN Append(cacheWrites, CacheWrite("toolResultCache", procs[p].key, now, expiryMs))
                   ELSE cacheWrites
            /\ UNCHANGED <<tokenCheckCache, now, ticks>>
            /\ UNCHANGED <<turnVars, historyResponse, formatter, contentReply>>

RaceArguments == {FindArgs, JObject({<<"query", "q1">>, <<"type", "subject">>})}

InitRace == InitWith(MAX_CONTEXT_MESSAGES, TRUE)

NextRace ==
    \/ \E p \in Procs : TokenCheckStart(p, {"u1", "u2"})
    \/ \E p \in Procs : TokenCheckAnswer(p, QuotaAnswers)
    \/ \E p \in Procs : FindStart(p, RaceArguments)
    \/ \E p \in Procs : FindAnswer(p, ContentAnswers({R1}))
    \/ Elapse({TOOL_CACHE_TTL_MS, TOKEN_CACHE_TTL_MS + 1})

SpecRace == InitRace /\ [][NextRace]_vars

----------------------------------------------------------------------------
(* Properties of the tool loop (Spec) *)

\* the tool call the for loop is at
CurrentCall == assistantMessage.tool_calls[toolIndex]

\* the turn was answered with the final assistant message
Answered == pc = "responded" /\ response.status = 200

\* C1: the tool loop runs at most SAFETY_LIMIT (five) rounds in a turn; once the
\* calls of the last round are done no tool call is processed or executed any more,
\* whatever the backend answers, and the answer to the last follow-up request ends
\* the turn (or the forced-text request is sent).
C1_RoundsBounded ==
    /\ [](safetyCounter <= SAFETY_LIMIT)
    /\ [][safetyCounter = SAFETY_LIMIT /\ pc # "tools"
            => /\ pc' # "tools"
               /\ toolExecutions' = toolExecutions
               /\ pc = "awaitFollowup" => pc' \in {"responded", "awaitForced"}]_vars

C1_Witness ==
    /\ Answered
    /\ safetyCounter = SAFETY_LIMIT
    /\ response.message.tool_calls # <<>>
    /\ backendRequests = SAFETY_LIMIT + 1

\* C2: within one round the executor is invoked once per distinct (name, arguments)
\* pair, and calls with the same pair carry the same result payload.
C2_OncePerPair ==
    pc \in {"tools", "awaitFollowup"} =>
        /\ \A i, j \in DOMAIN roundInvocations :
               i # j => RoundKey(roundInvocations[i].name, roundInvocations[i].args)
                            # RoundKey(roundInvocations[j].name, roundInvocations[j].args)
        /\ \A i, j \in DOMAIN toolResults :
               LET ci == assistantMessage.tool_calls[i]
                   cj == assistantMessage.tool_calls[j]
               IN  RoundKey(ci.name, JSONparse(ci.arguments))
                       = RoundKey(cj.name, JSONparse(cj.arguments))
                   => toolResults[i].content = toolResults[j].content

\* C3: a quota answer that is a non-success or reports no tokens left ends the turn
\* with 402; no completion request is sent and no tool is executed.
C3_QuotaGate ==
    quotaReply.received /\ ~quotaReply.throws /\ (~quotaReply.ok \/ quotaReply.tokens <= 0)
        => /\ pc = "responded"
           /\ response.status = 402
           /\ response.message = NoMessage
           /\ backendRequests = 0
           /\ inFlight = NoRequest
           /\ toolExecutions = 0
           /\ saved = <<>> /\ decrements = <<>>

C3_Witness ==
    /\ quotaReply.received /\ quotaReply.ok /\ quotaReply.tokens = 0
    /\ response.status = 402

\* C5: a tool call whose argument text cannot be parsed yields an error tool
\* message for that call and the loop goes on; the turn is not failed.
C5_MalformedArgsIsolated ==
    [][pc = "tools" /\ ParseThrows(CurrentCall.arguments)
          => /\ pc' \in {"tools", "awaitFollowup"}
             /\ Len(toolResults') = Len(toolResults) + 1
             /\ toolResults'[Len(toolResults')].tool_call_id = CurrentCall.id
             /\ toolResults'[Len(toolResults')].content[2] = "error"]_vars

\* the tool message at the position of an executor invocation
ResultOf(inv) == toolResults[inv.index]

\* C6: an executor that throws (unknown tool, guard failure, content service
\* non-success) yields an error tool message for its call; the loop goes on with
\* the remaining calls and the follow-up request carries the message.
C6_ThrowIsolated ==
    /\ [](pc \in {"tools", "awaitFollowup"} =>
            /\ \A k \in DOMAIN roundInvocations :
                   LET inv == roundInvocations[k]
                   IN  inv.threw =>
                           /\ inv.index <= Len(toolResults)
                           /\ ResultOf(inv).role = "tool"
                           /\ ResultOf(inv).tool_call_id = assistantMessage.tool_calls[inv.index].id
                           /\ ResultOf(inv).content[2] = "error"
            /\ pc = "awaitFollowup" =>
                   /\ Len(toolResults) = Len(assistantMessage.tool_calls)
                   /\ \A k \in DOMAIN toolResults :
                          inFlight.messages[Len(requestMessages) + 1 + k] = toolResults[k])
    /\ [][pc = "tools" /\ ~ParseThrows(CurrentCall.arguments)
            => /\ pc' \in {"tools", "awaitFollowup"}
               /\ Len(toolResults') = Len(toolResults) + 1
               /\ pc' = "tools" => toolIndex' = toolIndex + 1]_vars

C6_Witness ==
    /\ pc = "awaitFollowup"
    /\ Len(roundInvocations) = 2
    /\ roundInvocations[1].threw /\ roundInvocations[1].name = "get_current_weather"
    /\ ~roundInvocations[2].threw
    /\ inFlight.messages[Len(inFlight.messages) - 1].content[2] = "error"

\* C7: a completion request that fails ends the turn with the upstream status, or
\* 500 when there is none; no further request is sent and no tool is executed.
C7_BackendFailureEndsTurn ==
    /\ [](backendReply.received /\ ~backendReply.ok =>
            /\ pc = "responded"
            /\ response.status = (IF backendReply.status = 0 THEN 500 ELSE backendReply.status)
            /\ response.message = NoMessage
            /\ inFlight = NoRequest)
    /\ [][backendReply.received /\ ~backendReply.ok /\ turn' = turn
            => backendRequests' = backendRequests /\ toolExecutions' = toolExecutions]_vars

C7_Witness ==
    /\ backendReply.received /\ ~backendReply.ok /\ backendReply.status = 429
    /\ response.status = 429
    /\ safetyCounter = 2 /\ backendRequests = 3 /\ toolExecutions > 0

\* C10: in a follow-up request the assistant message stands immediately before the
\* first tool result, and the tool results follow in the order of its tool calls.
C10_ResultsInCallOrder ==
    pc = "awaitFollowup" =>
        LET calls == assistantMessage.tool_calls
            sent == inFlight.messages
            at == Len(sent) - Len(calls)
        IN  /\ at >= 1
            /\ sent[at] = assistantMessage
            /\ \A k \in DOMAIN calls :
                   /\ sent[at + k].role = "tool"
                   /\ sent[at + k].tool_call_id = calls[k].id
            /\ \A k \in 1..(at - 1) : sent[k].role # "tool"

C10_Witness ==
    /\ pc = "awaitFollowup"
    /\ Len(assistantMessage.tool_calls) = 2
    /\ assistantMessage.tool_calls[1].name # assistantMessage.tool_calls[2].name
    /\ inFlight.messages[Len(inFlight.messages)].tool_call_id = assistantMessage.tool_calls[2].id

----------------------------------------------------------------------------
(* Properties of the executors (SpecTools) *)

MutatingFetches == SelectSeq(roundFetches, LAMBDA f : f.method \in {"POST", "PUT"})

\* C4: create_content and edit_content send no mutating request and answer with a
\* preview unless confirm is the boolean true; with confirm true a call that
\* completes has sent exactly one mutating request.
C4_ConfirmGate ==
    pc = "executed" =>
        LET inv == roundInvocations[1]
        IN  inv.name \in {"create_content", "edit_content"} /\ inv.args.kind = "object" =>
                IF Field(inv.args, "confirm") = "true"
                THEN ~inv.threw => Len(MutatingFetches) = 1
                ELSE /\ MutatingFetches = <<>>
                     /\ ~inv.threw => toolResults[1].content[2] = "preview"

----------------------------------------------------------------------------
(* Properties of the context (SpecConv) *)

\* the stored history followed by the incoming messages, as the handler joins them
Joined == baseHistory(StoreGet(conversationStore, id)) \o body.messages

\* the part of the context after its first message
Recent == Tail(requestMessages)

\* C8: the context of a completion request starts with a system message.
C8_SystemFirst ==
    inFlight # NoRequest =>
        /\ inFlight.messages # <<>>
        /\ inFlight.messages[1].role = "system"

\* C9: when the joined sequence is longer than the limit and starts with a system
\* message, the context keeps that message at the front, followed by the most
\* recent messages in their order, without gap, and has at most max(2, limit)
\* messages: the system message and at least one recent message are always kept.
C9_TrimKeepsSystemAndRecent ==
    pc = "awaitFirst" /\ Len(Joined) > maxContext /\ Joined[1].role = "system" =>
        /\ requestMessages[1] = Joined[1]
        /\ Recent # <<>>
        /\ \A k \in DOMAIN Recent : Recent[k] = Joined[Len(Joined) - Len(Recent) + k]
        /\ Len(requestMessages) <= Max(2, maxContext)
        /\ inFlight.messages = requestMessages

C9_Witness ==
    /\ pc = "awaitFirst"
    /\ maxContext = 3
    /\ Len(Joined) = 5
    /\ Joined[1].role = "system"
    /\ Len(requestMessages) = 3

\* C9 as stated: the trimmed context has at most as many messages as the limit.
C9_AtMostLimit ==
    pc = "awaitFirst" /\ Len(Joined) > maxContext /\ Joined[1].role = "system" =>
        /\ requestMessages[1] = Joined[1]
        /\ \A k \in DOMAIN Recent : Recent[k] = Joined[Len(Joined) - Len(Recent) + k]
        /\ Len(requestMessages) <= maxContext

----------------------------------------------------------------------------
(* Properties of the rounds, the usage and the final message (Spec, SpecUsage) *)

\* the tool messages of a sequence of messages
ToolMessages(messages) == SelectSeq(messages, LAMBDA m : m.role = "tool")

RECURSIVE SumTotals(_)
SumTotals(log) == IF log = <<>> THEN 0 ELSE UsageTotal(Head(log)) + SumTotals(Tail(log))

\* C12: the usedTokens of an answered turn is the sum of the usage totals of the
\* answers to all completion requests of the turn, one answer per request.
C12_UsedTokensIsSum ==
    Answered =>
        /\ Len(usageLog) = backendRequests
        /\ response.usedTokens = SumTotals(usageLog)

C12_Witness ==
    /\ Answered
    /\ safetyCounter = 1 /\ backendRequests = 3
    /\ usageLog = <<Usage(2, 0, 1), Usage(0, 0, 3), Usage(2, 0, 1)>>
    /\ response.usedTokens = 7

\* the last message of the completion backend has text
HasText(msg) == msg.content[1] = "str" /\ msg.content[2] \notin {"", " "}

\* C13: the message of an answered turn has a content that is neither empty nor
\* only whitespace: the last backend message unchanged when it has text, else
\* that message with one of the two acknowledgment texts as content.
C13_FinalContentNotBlank ==
    Answered =>
        LET last == backendReply.message
            final == response.message
        IN  /\ HasText(final)
            /\ HasText(last) => final = last
            /\ ~HasText(last) =>
                   /\ final.tool_calls = last.tool_calls
                   /\ final.content =
                          IF last.tool_calls # <<>>
                          THEN Str("I've processed your request using the available tools.")
                          ELSE Str("I've processed your request.")

C13_Witness ==
    /\ Answered
    /\ backendReply.message.content = Str(" ")
    /\ response.message.content = Str("I've processed your request.")

\* the step receives an assistant message with no content and no tool calls
ReceivesEmptyMessage ==
    /\ turn' = turn
    /\ backendReply'.ok
    /\ backendReply'.message # NoMessage
    /\ Falsy(backendReply'.message.content)
    /\ backendReply'.message.tool_calls = <<>>

\* the step sends the request with tool_choice "none"
SendsForcedRequest ==
    /\ pc' = "awaitForced"
    /\ inFlight' = CompletionRequest(updatedMessages, "none")
    /\ backendRequests' = backendRequests + 1

\* C14: an answer to a follow-up request that has no content and no tool calls is
\* followed by exactly one more request, with tool_choice "none", whose answer ends
\* the turn; a first answer of that kind ends the turn without another request.
C14_ForcedAfterRound ==
    /\ [][pc = "awaitFollowup" /\ ReceivesEmptyMessage => SendsForcedRequest]_vars
    /\ [][pc = "awaitForced" => pc' = "responded" /\ backendRequests' = backendRequests]_vars
    /\ [][pc = "awaitFirst" /\ ReceivesEmptyMessage
            => /\ pc' = "responded"
               /\ response'.status = 200
               /\ backendRequests' = backendRequests]_vars

C14_Witness ==
    /\ pc = "awaitForced"
    /\ inFlight.tool_choice = "none"
    /\ backendReply.message.content = Str("")
    /\ backendReply.message.tool_calls = <<>>
    /\ backendRequests = 3

\* C14 as stated: the first answer of the turn included.
C14_ForcedAfterAnyAnswer ==
    [][(pc \in {"awaitFirst", "awaitFollowup"} /\ ReceivesEmptyMessage)
          => SendsForcedRequest]_vars

----------------------------------------------------------------------------
(* Properties of the statuses (SpecConv, Spec) *)

\* the current turn request has a body without userToken
WithoutToken(b, n) == n > 0 /\ b.valid /\ b.userToken = ""

\* C15: a turn request without userToken is answered with 401; no request goes to
\* the quota service or the completion backend, no tool is executed, and the
\* conversation store, the saved conversations and the decrements stay as they are.
C15_MissingToken401 ==
    /\ [](WithoutToken(body, turn) =>
            /\ pc = "responded"
            /\ response.status = 401
            /\ quotaReply = NoQuotaReply
            /\ backendReply = NoReply
            /\ backendRequests = 0
            /\ inFlight = NoRequest
            /\ toolExecutions = 0)
    /\ [][WithoutToken(body', turn') =>
            /\ conversationStore' = conversationStore
            /\ tokenCheckCache' = tokenCheckCache
            /\ saved' = saved
            /\ decrements' = decrements]_vars

C15_Witness ==
    /\ WithoutToken(body, turn)
    /\ turn = 2
    /\ response.status = 401
    /\ conversationStore # {}

\* C16: a turn request whose body cannot be parsed is answered with status 400.
C16_MalformedBody400 ==
    turn > 0 /\ ~body.valid /\ pc = "responded" => response.status = 400

\* C17: a response with status 402 is a rejection by the token check: the quota
\* service answered with a non-success or with no tokens left, and no completion
\* request was sent.
C17_Only402FromGate ==
    pc = "responded" /\ response.status = 402 =>
        /\ quotaReply.received /\ ~quotaReply.throws
        /\ ~quotaReply.ok \/ quotaReply.tokens <= 0
        /\ backendRequests = 0
        /\ ~backendReply.received

----------------------------------------------------------------------------
(* Properties of the result cache (SpecTools) *)

\* the step executes find_content with arguments that pass its guard
FindExecuted ==
    /\ pc' = "executed" /\ now' = now
    /\ roundInvocations'[1].name = "find_content"
    /\ roundInvocations'[1].args.kind = "object"
    /\ HasKey(roundInvocations'[1].args, "query")

\* the entries that are stored under the key of the executed call and expire later than now
Unexpired ==
    {e \in toolResultCache :
        e.key = FindCacheKey(roundInvocations'[1].args) /\ e.expiryMs > now}

\* C18: find_content answers from the cache only with an entry whose expiry lies
\* after now; without such an entry the content service is asked, a success is
\* stored with expiry now + TOOL_CACHE_TTL_MS, and a failure stores nothing.
C18_NoExpiredEntryServed ==
    [][FindExecuted =>
          IF Unexpired # {}
          THEN /\ roundFetches' = <<>>
               /\ \E e \in Unexpired : toolResults'[1].content = e.payload
               /\ toolResultCache' = toolResultCache
          ELSE /\ Len(roundFetches') = 1
               /\ roundInvocations'[1].threw => toolResultCache' = toolResultCache
               /\ ~roundInvocations'[1].threw =>
                      \E e \in toolResultCache' :
                          /\ e.key = FindCacheKey(roundInvocations'[1].args)
                          /\ e.expiryMs = now + TOOL_CACHE_TTL_MS
                          /\ e.payload = toolResults'[1].content]_vars

\* an entry stored at 0 is served at 1, before its expiry
C18_Witness ==
    /\ pc = "executed"
    /\ now = 1
    /\ roundInvocations[1].name = "find_content"
    /\ ~roundInvocations[1].threw
    /\ roundFetches = <<>>
    /\ \E e \in toolResultCache :
           /\ e.key = FindCacheKey(roundInvocations[1].args)
           /\ e.expiryMs = TOOL_CACHE_TTL_MS
           /\ e.payload = toolResults[1].content

\* the last execution was a create_content or edit_content that changed the content
MutationDone ==
    /\ pc = "executed"
    /\ roundInvocations[1].name \in {"create_content", "edit_content"}
    /\ ~roundInvocations[1].threw
    /\ MutatingFetches # <<>>

\* C20: a find_content executed after a successful confirmed create_content or
\* edit_content is not answered from the cache: the content service is asked.
C20_NoStaleAfterMutation ==
    [][MutationDone /\ FindExecuted => Len(roundFetches') = 1]_vars

----------------------------------------------------------------------------
(* Properties of the concurrent requests (SpecRace) *)

\* C19: a key of the token cache or of the result cache is written at most once
\* per TTL window: a later write of the same key happens only when the entry of
\* the earlier write has expired.
C19_OneWritePerWindow ==
    \A i, j \in DOMAIN cacheWrites :
        (/\ i < j
         /\ cacheWrites[i].cache = cacheWrites[j].cache
         /\ cacheWrites[i].key = cacheWrites[j].key)
            => cacheWrites[j].at >= cacheWrites[i].expiryMs

----------------------------------------------------------------------------
(* Properties of the quota decrement *)

\* C21: the decrement_by sent to the quota service after an answered turn equals the
\* usedTokens returned to the client, for every usage total, 0 included.
C21_DecrementEqualsUsage ==
    Answered =>
        /\ decrements # <<>>
        /\ decrements[Len(decrements)].decrement_by = response.usedTokens

----------------------------------------------------------------------------
(* The turn specification: several turns of one client, each with at most  *)
(* one tool call per round, with the replies of the quota service to the   *)
(* token check and to the decrement                                        *)

TurnBodies ==
    {MalformedBody}
        \cup {RequestBody(TRUE, <<Msg("user", Str("m1"))>>, ClientId("c1"), t) : t \in {"", "u1"}}

\* no response at all, a text answer, and empty answers with or without a tool call
TurnAnswers ==
    {Failure(0), Success(AssistantMsg(Str("answer"), <<>>), Usage(1, 0, 0))}
        \cup {Success(AssistantMsg(Str(""), b), Usage(1, 0, 0)) :
                b \in Batches(UsageTemplates, 1) \cup {<<>>}}

\* the fetch of a decrement resolves with a success status, resolves with a failure
\* status, or rejects
NextTurns ==
    \/ Request(MaxTurns, TurnBodies)
    \/ QuotaResponse(QuotaAnswers)
    \/ FirstResponse(TurnAnswers)
    \/ ToolCallStep({ContentAnswer(TRUE, R1)})
    \/ FollowupResponse(TurnAnswers)
    \/ ForcedResponse(TurnAnswers)
    \/ DecrementAnswer({"ok", "rejected", "threw"})

SpecTurns == Init /\ [][NextTurns]_vars

\* a step that ends a turn with an answer
TurnAnswered == pc # "responded" /\ pc' = "responded" /\ response'.status = 200

\* a step that ends a turn with a failure or a rejection
TurnFailed == pc # "responded" /\ pc' = "responded" /\ response'.status # 200

\* the decrement requests sent so far, without their outcomes
RECURSIVE DecrementRequests(_)
DecrementRequests(log) ==
    IF log = <<>> THEN <<>>
    ELSE <<[utoken |-> Head(log).utoken, decrement_by |-> Head(log).decrement_by]>>
             \o DecrementRequests(Tail(log))

\* C22: a step that ends a turn with an answer sends exactly one decrement request,
\* for the token of the turn; every other step, the end of a failed or rejected turn
\* and the arrival of a decrement's outcome included, sends none, and the arrival of
\* an outcome leaves the response of the turn as it is.
C22_OneDecrementPerAnsweredTurn ==
    [][/\ TurnAnswered =>
            /\ Len(decrements') = Len(decrements) + 1
            /\ SubSeq(DecrementRequests(decrements'), 1, Len(decrements)) = DecrementRequests(decrements)
            /\ decrements'[Len(decrements')].utoken = body'.userToken
       /\ ~TurnAnswered => DecrementRequests(decrements') = DecrementRequests(decrements)
       /\ (decrements' # decrements /\ ~TurnAnswered) => response' = response /\ pc' = pc]_vars

\* two turns were answered, the decrement of the first one failed and that of the
\* second one is still under way: two requests were sent, none was repeated
C22_Witness ==
    /\ turn = 2 /\ Answered
    /\ Len(decrements) = 2
    /\ decrements[1].outcome = "threw"
    /\ decrements[2].outcome = "pending"

----------------------------------------------------------------------------
(* The history route, and the history specification: turns whose incoming  *)
(* messages have user and system roles, and requests for the history       *)

\* a faulty variant: the system messages are left in
DisplayMessages_All(history) == history

\* history.filter(msg => msg.role !== 'system')
DisplayMessages(history) == SelectSeq(history, LAMBDA msg : msg.role # "system")

\* POST of the history route applied to a body, with the store as it is
HistoryPOST(store, request) ==
    LET history == StoreGet(store, request.conversationId)
    IN  IF ~request.valid
        THEN HistoryResponse(request, 500, "SyntaxError", <<>>, NoId)
        ELSE IF request.conversationId = NoId
        THEN HistoryResponse(request, 400, "Conversation ID is required", <<>>, NoId)
        ELSE IF history = <<>>
        THEN HistoryResponse(request, 200, "", <<>>, NoId)
        ELSE HistoryResponse(request, 200, "", DisplayMessages(history), request.conversationId)

\* a history request is answered; the route shares the store with the turn handler
History(Requests) ==
    \E request \in Requests :
        /\ historyResponse' = HistoryPOST(conversationStore, request)
        /\ UNCHANGED <<turnVars, tokenCheckCache, toolResultCache, now, ticks, raceVars, formatter,
                       contentReply>>

HistoryBodies == {RequestBody(TRUE, m, ClientId("c1"), "u1") : m \in IncomingLists(MaxIncoming)}

\* a body that is not JSON, a body without conversationId, and the ids of a
\* conversation that has turns and of one that has none
HistoryRequests ==
    {HistoryRequest(FALSE, NoId)}
        \cup {HistoryRequest(TRUE, c) : c \in {NoId, ClientId("c1"), ClientId("c2")}}

NextHistory ==
    \/ Request(MaxTurns, HistoryBodies)
    \/ QuotaResponse({QuotaAnswer(FALSE, TRUE, 5)})
    \/ FirstResponse({Failure(0), Success(AssistantMsg(Str("answer"), <<>>), Usage(1, 0, 0))})
    \/ History(HistoryRequests)

SpecHistory == InitWith(MAX_CONTEXT_MESSAGES, TRUE) /\ [][NextHistory]_vars

\* the positions of a history that hold no system message
Displayed(history) == {i \in 1..Len(history) : history[i].role # "system"}

\* out holds the messages of history that are not system messages, in their order
IsDisplayOf(out, history) ==
    /\ Len(out) = Cardinality(Displayed(history))
    /\ \A i \in Displayed(history) :
           out[Cardinality({j \in Displayed(history) : j <= i})] = history[i]

\* C23: the answer to a history request holds the stored messages of the conversation
\* in their stored order without the system messages, with status 200; a conversation
\* without stored history gives an empty list with status 200, and a request without
\* conversationId gives status 400.
C23_HistoryFiltered ==
    [][(historyResponse' # historyResponse /\ historyResponse'.request.valid) =>
          LET request == historyResponse'.request
              stored == StoreGet(conversationStore, request.conversationId)
          IN  IF request.conversationId = NoId
              THEN historyResponse'.status = 400
              ELSE /\ historyResponse'.status = 200
                   /\ IsDisplayOf(historyResponse'.messages, stored)
                   /\ stored = <<>> => historyResponse'.messages = <<>>]_vars

\* the history of a conversation with two turns is requested: the stored history
\* holds a system message between other messages, the answer does not
C23_Witness ==
    LET stored == StoreGet(conversationStore, ClientId("c1"))
    IN  /\ historyResponse.status = 200
        /\ historyResponse.request.conversationId = ClientId("c1")
        /\ turn = 2 /\ pc = "responded" /\ response.status = 200
        /\ Len(stored) = 5
        /\ stored[1].role = "user" /\ stored[2].role = "system"
        /\ Len(historyResponse.messages) = 4
        /\ historyResponse.messages[2] = stored[3]

----------------------------------------------------------------------------
(* The formatter: toRichHtml and htmlToPlainText on texts, a text being    *)
(* the sequence of its characters                                          *)

MaxText == 4

WhiteSpace == {" ", "\n", "\t", "\r"}

IsSpace(c) == c \in WhiteSpace

StartsWith(s, prefix) == Len(prefix) <= Len(s) /\ SubSeq(s, 1, Len(prefix)) = prefix

\* s.replace(/pattern/g, replacement) for a literal pattern
RECURSIVE ReplaceAll(_, _, _)
ReplaceAll(s, pattern, replacement) ==
    IF s = <<>> THEN <<>>
    ELSE IF StartsWith(s, pattern)
    THEN replacement \o ReplaceAll(SubSeq(s, Len(pattern) + 1, Len(s)), pattern, replacement)
    ELSE <<Head(s)>> \o ReplaceAll(Tail(s), pattern, replacement)

RECURSIVE trimEnd(_)
trimEnd(s) == IF s # <<>> /\ IsSpace(s[Len(s)]) THEN trimEnd(SubSeq(s, 1, Len(s) - 1)) ELSE s

RECURSIVE trimStart(_)
trimStart(s) == IF s # <<>> /\ IsSpace(Head(s)) THEN trimStart(Tail(s)) ELSE s

trim(s) == trimStart(trimEnd(s))

\* the length of the longest prefix of s whose characters are all in Chars
\* (inside) or all outside of it
RECURSIVE RunLength(_, _, _)
RunLength(s, Chars, inside) ==
    IF s # <<>> /\ ((Head(s) \in Chars) = inside) THEN 1 + RunLength(Tail(s), Chars, inside) ELSE 0

\* s.split('\n')
RECURSIVE split(_)
split(s) ==
    LET n == RunLength(s, {"\n"}, FALSE)
    IN  IF n = Len(s) THEN <<s>> ELSE <<SubSeq(s, 1, n)>> \o split(SubSeq(s, n + 2, Len(s)))

\* parts.join('\n')
RECURSIVE join(_)
join(parts) ==
    IF parts = <<>> THEN <<>>
    ELSE IF Len(parts) = 1 THEN parts[1]
    ELSE parts[1] \o <<"\n">> \o join(Tail(parts))

\* esc of toRichHtml: & first, then < and >
esc(s) ==
    ReplaceAll(ReplaceAll(ReplaceAll(s, <<"&">>, <<"&", "a", "m", "p", ";">>),
                          <<"<">>, <<"&", "l", "t", ";">>),
               <<">">>, <<"&", "g", "t", ";">>)

\* the paragraphs of the lines that are not blank. The heading and list patterns
\* need a line that starts with '#', '-' or '*', and fmtInline needs '*' or "http":
\* a text without these characters takes the paragraph branch with fmtInline idle
RECURSIVE Paragraphs(_)
Paragraphs(lines) ==
    IF lines = <<>> THEN <<>>
    ELSE LET line == trimEnd(Head(lines))
         IN  (IF trim(line) = <<>> THEN <<>>
              ELSE << <<"<", "p", ">">> \o esc(line) \o <<"<", "/", "p", ">">> >>)
                 \o Paragraphs(Tail(lines))

toRichHtml(input) == join(Paragraphs(split(ReplaceAll(input, <<"\r", "\n">>, <<"\n">>))))

\* p|div|h[1-6]|li|ul|ol|blockquote|section|article
BlockTags ==
    {<<"p">>, <<"d", "i", "v">>, <<"l", "i">>, <<"u", "l">>, <<"o", "l">>,
     <<"b", "l", "o", "c", "k", "q", "u", "o", "t", "e">>, <<"s", "e", "c", "t", "i", "o", "n">>,
     <<"a", "r", "t", "i", "c", "l", "e">>}
        \cup {<<"h", d>> : d \in {"1", "2", "3", "4", "5", "6"}}

\* what stands between '<' and the next '>' matches the pattern of the kind:
\* br: \s*br\s*\/?\s*   close: \s*\/\s*(block)\s*   open: \s*(block)[^>]*   any: [^>]+
TagMatches(kind, inner) ==
    CASE kind = "br" ->
             /\ StartsWith(trim(inner), <<"b", "r">>)
             /\ trim(SubSeq(trim(inner), 3, Len(trim(inner)))) \in {<<>>, <<"/">>}
      [] kind = "close" ->
             /\ StartsWith(trimStart(inner), <<"/">>)
             /\ trim(Tail(trimStart(inner))) \in BlockTags
      [] kind = "open" -> \E name \in BlockTags : StartsWith(trimStart(inner), name)
      [] kind = "any" -> inner # <<>>

\* text.replace(/<...>/gi, replacement) for the tag pattern of the kind; none of the
\* patterns can run over a '>', so a match ends at the first '>' after its '<'
RECURSIVE ReplaceTags(_, _, _)
ReplaceTags(s, kind, replacement) ==
    LET n == RunLength(Tail(s), {">"}, FALSE)
    IN  IF s = <<>> THEN <<>>
        ELSE IF Head(s) = "<" /\ n + 2 <= Len(s) /\ TagMatches(kind, SubSeq(s, 2, n + 1))
        THEN replacement \o ReplaceTags(SubSeq(s, n + 3, Len(s)), kind, replacement)
        ELSE <<Head(s)>> \o ReplaceTags(Tail(s), kind, replacement)

\* the entities in the order of the code: &nbsp; &amp; &lt; &gt; &quot; &#39;
Unescape(s) ==
    ReplaceAll(ReplaceAll(ReplaceAll(ReplaceAll(ReplaceAll(ReplaceAll(s,
        <<"&", "n", "b", "s", "p", ";">>, <<" ">>),
        <<"&", "a", "m", "p", ";">>, <<"&">>),
        <<"&", "l", "t", ";">>, <<"<">>),
        <<"&", "g", "t", ";">>, <<">">>),
        <<"&", "q", "u", "o", "t", ";">>, <<"\"">>),
        <<"&", "#", "3", "9", ";">>, <<"'">>)

\* text.replace(/\n{3,}/g, '\n\n')
RECURSIVE CollapseNewlines(_)
CollapseNewlines(s) ==
    LET n == RunLength(s, {"\n"}, TRUE)
    IN  IF s = <<>> THEN <<>>
        ELSE IF n >= 3 THEN <<"\n", "\n">> \o CollapseNewlines(SubSeq(s, n + 1, Len(s)))
        ELSE <<Head(s)>> \o CollapseNewlines(Tail(s))

htmlToPlainText(html) ==
    LET breaks == ReplaceTags(html, "br", <<"\n">>)
        closed == ReplaceTags(breaks, "close", <<"\n">>)
        opened == ReplaceTags(closed, "open", <<"\n">>)
        bare == ReplaceTags(opened, "any", <<>>)
        lines == split(Unescape(bare))
    IN  IF html = <<>> THEN <<>>
        ELSE trim(CollapseNewlines(join([k \in 1..Len(lines) |-> trimEnd(lines[k])])))

\* const htmlBody = toRichHtml(args.description || '')
ToRichHtml ==
    /\ formatter.pc = "input"
    /\ formatter' = Formatted("html", formatter.input, toRichHtml(formatter.input), <<>>)
    /\ UNCHANGED <<turnVars, tokenCheckCache, toolResultCache, now, ticks, raceVars,
                   historyResponse, contentReply>>

\* const plainText = htmlToPlainText(htmlBody)
HtmlToPlainText ==
    /\ formatter.pc = "html"
    /\ formatter' = Formatted("text", formatter.input, formatter.html,
                              htmlToPlainText(formatter.html))
    /\ UNCHANGED <<turnVars, tokenCheckCache, toolResultCache, now, ticks, raceVars,
                   historyResponse, contentReply>>

\* descriptions of plain text: letters, blanks, line ends and the characters & < > ;
Descriptions == {<<>>} \cup SeqsUpTo({"l", "t", " ", "\n", "&", "<", ">", ";"}, MaxText)

InitFormat ==
    \E x \in Descriptions :
        InitState(MAX_CONTEXT_MESSAGES, TRUE) /\ formatter = Formatted("input", x, <<>>, <<>>)

NextFormat == ToRichHtml \/ HtmlToPlainText

SpecFormat == InitFormat /\ [][NextFormat]_vars

\* the words of a text: its maximal runs of characters that are not white space
RECURSIVE Words(_)
Words(s) ==
    LET t == trimStart(s)
        n == RunLength(t, WhiteSpace, FALSE)
    IN  IF t = <<>> THEN <<>> ELSE <<SubSeq(t, 1, n)>> \o Words(SubSeq(t, n + 1, Len(t)))

\* C24: the plain text of the rich HTML of a description without markup has the
\* words of the description in their order (so every &, < and > comes back as it
\* was), no run of three or more line ends, and no white space at its ends.
C24_RoundTrip ==
    formatter.pc = "text" =>
        /\ Words(formatter.text) = Words(formatter.input)
        /\ \A k \in 1..(Len(formatter.text) - 2) :
               ~(formatter.text[k] = "\n" /\ formatter.text[k + 1] = "\n" /\ formatter.text[k + 2] = "\n")
        /\ trim(formatter.text) = formatter.text

----------------------------------------------------------------------------
(* The search specification: find_content called with each declared type   *)
(* on replies of every shape                                               *)

FindArguments ==
    {FindArgs} \cup {JObject({<<"query", "q1">>, <<"type", t>>}) : t \in {"Problems", "idea"}}

\* flat lists; objects with the three buckets, the problems bucket an array or not;
\* objects whose only array has another name or that have no array; no content.
\* The posts: a subject with a link, a post with neither type nor link but a url,
\* an idea with a post_url only
ContentShapes ==
  LET S1 == Post("s1", "subject", "1", "l1", "u1", "")
      P1 == Post("p1", "", "2", "", "u2", "p2")
      I1 == Post("i1", "idea", "", "", "", "p3")
  IN
    {ArrayContent(<<>>), ArrayContent(<<S1, P1>>), NoContent,
     ObjectContent(<<ContentField("results", TRUE, <<P1, I1>>)>>),
     ObjectContent(<<ContentField("status", FALSE, <<>>)>>)}
        \cup {ObjectContent(<<ContentField("subjects", TRUE, s), ContentField("problems", a, p),
                              ContentField("ideas", TRUE, i)>>) :
                s \in {<<>>, <<S1>>}, a \in BOOLEAN, p \in {<<>>, <<P1, S1>>}, i \in {<<>>, <<I1>>}}

NextFind == Execute({"find_content"}, FindArguments, {"u1"}, ContentAnswers(ContentShapes))

SpecFind == InitWith(MAX_CONTEXT_MESSAGES, TRUE) /\ [][NextFind]_vars

\* the lower-case declared type of the arguments of the last call, "all" by default
DeclaredType ==
    LET args == roundInvocations[1].args
    IN  IF HasKey(args, "type") THEN Lower(Field(args, "type")) ELSE "all"

\* the content service answered a search with success
Searched ==
    /\ pc = "executed" /\ roundInvocations[1].name = "find_content"
    /\ contentReply.received /\ contentReply.ok

\* the list the three branches select, in their order of priority: the flat list;
\* else the bucket of the declared type, if the reply has that bucket; else the
\* first field that is an array
SelectedList(content, t) ==
    IF content.kind = "array" THEN content.items
    ELSE IF content.kind # "object" THEN <<>>
    ELSE IF \E k \in 1..Len(content.fields) :
                content.fields[k].key = BucketKey(t) /\ content.fields[k].isArray
    THEN Bucket(content, BucketKey(t))
    ELSE FirstArray(content)

\* C25: the result of a search is the list selected by the three branches in their
\* order of priority, one item {title, type, id, link} per element in its order.
C25_BranchesInPriorityOrder ==
    Searched =>
        LET selected == SelectedList(contentReply.body, DeclaredType)
            items == toolResults[1].content[3]
        IN  /\ Len(items) = Len(selected)
            /\ \A k \in 1..Len(selected) :
                   /\ items[k].title = selected[k].title
                   /\ items[k].id = selected[k].id
                   /\ items[k].type \in {selected[k].post_type, DeclaredType}
                   /\ items[k].link \in {selected[k].link, selected[k].url, selected[k].post_url}

----------------------------------------------------------------------------
(* Properties of persistence *)

\* C26: the step that ends a turn with a failure response leaves the store, the
\* saved conversations and the decrement requests as they are, and the store changes
\* only in the step that ends a turn with an answer, whose final assistant message
\* is then the last message of the stored history.
C26_FailureLeavesStore ==
    [][/\ TurnFailed =>
            /\ conversationStore' = conversationStore
            /\ saved' = saved
            /\ DecrementRequests(decrements') = DecrementRequests(decrements)
       /\ (conversationStore' # conversationStore \/ saved' # saved) =>
            /\ TurnAnswered
            /\ response'.message.role = "assistant"
            /\ LET stored == StoreGet(conversationStore', id')
               IN  stored # <<>> /\ stored[Len(stored)] = response'.message]_vars

\* the second turn of a conversation ended with a failure of the backend after a
\* round of tools: the history stored by the first turn is all there is
C26_Witness ==
    /\ turn = 2 /\ pc = "responded" /\ response.status = 500
    /\ backendReply.received /\ ~backendReply.ok /\ safetyCounter = 1
    /\ Len(StoreGet(conversationStore, id)) = 2
    /\ Len(saved) = 1 /\ Len(decrements) = 1

----------------------------------------------------------------------------
(* Properties of the forced-text request *)

\* the step sends a completion request
SendsRequest == backendRequests' = backendRequests + 1 /\ turn' = turn

\* C27: a completion request has tool_choice "none" only if it is sent on an answer
\* to a follow-up request, and "auto" otherwise; the step after the forced-text
\* request ends the turn without another request and without executing a tool, so
\* that a turn has at most one forced-text request.
C27_OneForcedRequest ==
    /\ [][SendsRequest =>
              /\ inFlight'.tool_choice \in {"auto", "none"}
              /\ inFlight'.tool_choice = "none" <=> pc' = "awaitForced"
              /\ pc' = "awaitForced" => pc = "awaitFollowup" /\ inFlight.tool_choice = "auto"]_vars
    /\ [][pc = "awaitForced" =>
              /\ inFlight.tool_choice = "none"
              /\ pc' = "responded"
              /\ inFlight' = NoRequest
              /\ backendRequests' = backendRequests
              /\ toolExecutions' = toolExecutions
              /\ safetyCounter' = safetyCounter]_vars
    /\ [][(turn' = turn + 1 /\ backendRequests' = 1) => inFlight'.tool_choice = "auto"]_vars

\* the turn was answered by a forced-text answer that carries tool calls: one round,
\* three requests, and the tool calls were not executed
C27_Witness ==
    /\ Answered
    /\ safetyCounter = 1 /\ backendRequests = 3
    /\ backendReply.message.tool_calls # <<>>
    /\ response.message.tool_calls = backendReply.message.tool_calls

----------------------------------------------------------------------------
(* Properties of the result cache across users *)

\* C28: a search that follows a search answered by the content service for another
\* user token is itself answered by the content service, asked with the token of
\* its own user: the result fetched for one user is not returned to another.
C28_NoCrossUserResult ==
    [][(/\ pc = "executed" /\ pc' = "executed"
        /\ roundInvocations[1].name = "find_content" /\ ~roundInvocations[1].threw
        /\ roundFetches # <<>>
        /\ roundInvocations'[1].name = "find_content" /\ ~roundInvocations'[1].threw
        /\ body'.userToken # body.userToken)
          => /\ roundFetches' # <<>>
             /\ roundFetches'[1].token = body'.userToken]_vars

----------------------------------------------------------------------------
(* Properties of the context across rounds *)

\* C29: the context sent after round k starts with the context of the first request
\* and holds the assistant tool-call message and the tool results of every round
\* 1..k: at least k assistant messages with tool calls and k tool messages.
C29_ContextGrows ==
    pc = "awaitFollowup" =>
        LET sent == inFlight.messages
            added == {k \in DOMAIN sent : k > Len(requestMessages)}
        IN  /\ SubSeq(sent, 1, Len(requestMessages)) = requestMessages
            /\ Cardinality({k \in added : sent[k].role = "assistant" /\ sent[k].tool_calls # <<>>})
                   >= safetyCounter
            /\ Cardinality({k \in added : sent[k].role = "tool"}) >= safetyCounter

----------------------------------------------------------------------------
(* Properties of the token cache *)

\* request p passes the token check in this step, by a cached result or by the
\* answer of the quota service
PassesGate(p) ==
    /\ procs'[p].pc = "passed"
    /\ procs'[p].n = procs[p].n + 1 \/ procs[p].pc = "awaitQuota"

\* the quota service rejects the check of request p in this step, or the check fails
CheckRejected(p) == procs[p].pc = "awaitQuota" /\ procs'[p].pc = "rejected"

\* C30: a request passes the token check only if a positive quota for its token was
\* reported at most TOKEN_CACHE_TTL_MS earlier; every cached result is positive; a
\* rejected or failed check leaves the token cache as it is; and a request that
\* finds no entry of its token that has not expired asks the quota service.
C30_GateNeedsFreshPositive ==
    /\ [][\A p \in Procs : PassesGate(p) =>
              \E i \in DOMAIN cacheWrites' :
                  /\ cacheWrites'[i].cache = "tokenCheckCache"
                  /\ cacheWrites'[i].key = procs'[p].key
                  /\ cacheWrites'[i].at <= now
                  /\ now - cacheWrites'[i].at <= TOKEN_CACHE_TTL_MS]_vars
    /\ [][\A e \in tokenCheckCache' : e.remaining > 0]_vars
    /\ [][\A p \in Procs : CheckRejected(p) => tokenCheckCache' = tokenCheckCache]_vars
    /\ [][\A p \in Procs :
              (/\ procs'[p].n = procs[p].n + 1
               /\ procs'[p].pc \in {"awaitQuota", "passed"}
               /\ ~\E e \in tokenCheckCache : e.token = procs'[p].key /\ e.expiryMs >= now)
                  => procs'[p].pc = "awaitQuota"]_vars

\* a request passed the token check at 5000 by the result cached at 0
C30_Witness ==
    \E p \in Procs :
        /\ procs[p].pc = "passed" /\ procs[p].key = "u1" /\ procs[p].at = TOOL_CACHE_TTL_MS
        /\ Len(cacheWrites) = 1
        /\ cacheWrites[1] = CacheWrite("tokenCheckCache", "u1", 0, TOKEN_CACHE_TTL_MS)

\* C30 as stated: after a rejected or failed check of a token, the next request with
\* that token asks the quota service, that is, no cached result of the token is in use.
C30_RejectedMeansRecheck ==
    [][\A p \in Procs : CheckRejected(p) => ~TokenCached(tokenCheckCache', procs[p].key, now)]_vars

----------------------------------------------------------------------------
(* Termination of a turn *)

\* Every await of the handler settles: the quota check, each completion request and
\* each tool execution eventually returns or fails, so a turn that waits for one of
\* them eventually takes the step that handles its answer.
Fairness ==
    /\ WF_vars(QuotaResponse(QuotaAnswers))
    /\ WF_vars(FirstResponse(TurnAnswers))
    /\ WF_vars(ToolCallStep({ContentAnswer(TRUE, R1)}))
    /\ WF_vars(FollowupResponse(TurnAnswers))
    /\ WF_vars(ForcedResponse(TurnAnswers))

\* the turns of one client after another; the detached decrement is left out, the
\* handler does not wait for it
NextLive ==
    \/ Request(MaxTurns, TurnBodies)
    \/ QuotaResponse(QuotaAnswers)
    \/ FirstResponse(TurnAnswers)
    \/ ToolCallStep({ContentAnswer(TRUE, R1)})
    \/ FollowupResponse(TurnAnswers)
    \/ ForcedResponse(TurnAnswers)

SpecLive == Init /\ [][NextLive]_vars /\ Fairness

\* the turn waits for the quota service, the completion backend or a tool
Running == pc \notin {"idle", "responded"}

\* 1 initial request, at most SAFETY_LIMIT follow-ups, at most 1 forced-text request
RequestLimit == 1 + SAFETY_LIMIT + 1

\* C31: a turn whose external calls all settle terminates: it eventually produces a
\* response, it produces exactly one (no response while it runs, and the response
\* of a finished turn is not replaced before the next turn starts), and it has sent
\* at most 7 completion requests (1 initial, at most 5 follow-ups, at most 1 forced).
C31_TurnTerminates ==
    /\ Running ~> pc = "responded"
    /\ [](backendRequests <= RequestLimit)
    /\ [](Running => response = NoResponse)
    /\ [](pc = "responded" => response # NoResponse)
    /\ [][pc = "responded" /\ turn' = turn => response' = response]_vars

\* a turn that was answered after the last round ended in a forced-text request:
\* five rounds and seven completion requests
C31_Witness ==
    /\ Answered
    /\ safetyCounter = SAFETY_LIMIT
    /\ backendRequests = RequestLimit

----------------------------------------------------------------------------
(* The final assistant message *)

\* the step that answers the turn with status 200
Succeeds == pc # "responded" /\ pc' = "responded" /\ response'.status = 200

\* C32: a successful turn appends to the history of its conversation exactly the
\* incoming messages followed by one final assistant message, and that message, the
\* one stored and returned, carries no tool calls that were left unanswered,
\* whatever the backend answered and also when the round limit ended the loop.
C32_FinalMessageWithoutToolCalls ==
    [][Succeeds =>
          /\ StoreGet(conversationStore', id)
                 = StoreGet(conversationStore, id) \o body.messages \o <<response'.message>>
          /\ response'.message.tool_calls = <<>>]_vars

\* the append alone: the incoming messages and then the returned assistant message
C32_AppendsTurn ==
    [][Succeeds =>
          StoreGet(conversationStore', id)
              = StoreGet(conversationStore, id) \o body.messages \o <<response'.message>>]_vars

\* the loop ended at the round limit while the last follow-up answer still asked for
\* tools: the message stored and returned carries those tool calls
C32_RoundLimitKeepsToolCalls ==
    /\ Answered
    /\ safetyCounter = SAFETY_LIMIT
    /\ backendRequests = 1 + SAFETY_LIMIT
    /\ response.message.tool_calls # <<>>
    /\ StoreGet(conversationStore, id)[Len(StoreGet(conversationStore, id))] = response.message

----------------------------------------------------------------------------
(* Concurrent turns on the Conversation Store: each request reads the history *)
(* of its conversation before it awaits the completion backend, and appends  *)
(* in the task that handles the last answer.                                  *)

\* the turn of request p: its conversation, its incoming messages, the history it
\* read, and the assistant message it stored and returned
TurnProc(where, started, conversation, messages, existingHistory, final) ==
    [pc |-> where, n |-> started, id |-> conversation, messages |-> messages,
     existingHistory |-> existingHistory, final |-> final]

\* the messages request p sends: one or two user messages that name the request
TurnMessages(p) ==
    {<<Msg("user", Str(p))>>, <<Msg("user", Str(p)), Msg("user", Str("more"))>>}

\* request p passed the token check: const existingHistory = conversationStore.get(id)
\* || [], the context is built from it, and the first completion request is awaited
TurnStart(p, Ids) ==
    \E i \in Ids, messages \in TurnMessages(p) :
        /\ procs[p].pc \in {"idle", "answered", "failed"}
        /\ procs[p].n < MaxRequests
        /\ procs' = [procs EXCEPT ![p] =
                        TurnProc("awaitBackend", procs[p].n + 1, i, messages,
                                 StoreGet(conversationStore, i), NoMessage)]
        /\ UNCHANGED <<conversationStore, tokenCheckCache, toolResultCache, cacheWrites, now, ticks>>
        /\ UNCHANGED <<apiKey, maxContext, pc, turn, body, id, checkedAt, requestMessages,
                       assistantMessage, safetyCounter, toolIndex, toolResults, roundMemo,
                       updatedMessages, usedTokens, response, decrements, saved, quotaReply,
                       backendReply, backendRequests, inFlight, roundInvocations,
                       roundFetches, toolExecutions, usageLog>>
        /\ UNCHANGED <<historyResponse, formatter, contentReply>>

\* a faulty variant: the messages are appended to the history the request read
\* before its awaits
TurnAnswer_FromSnapshot(p, Answers) ==
    \E resp \in Answers :
        LET final == FinalMessage(resp.message)
            history == AppendedHistory(procs[p].existingHistory,
                                       procs[p].messages \o <<final>>, MAX_STORED_MESSAGES)
        IN  /\ procs[p].pc = "awaitBackend"
            /\ IF ~resp.ok \/ resp.message = NoMessage
               THEN /\ procs' = [procs EXCEPT ![p].pc = "failed"]
                    /\ UNCHANGED conversationStore
               ELSE /\ procs' = [procs EXCEPT ![p].pc = "answered", ![p].final = final]
                    /\ conversationStore' =
                           {e \in conversationStore : e.id # procs[p].id}
                               \cup {[id |-> procs[p].id, history |-> history]}
            /\ UNCHANGED <<tokenCheckCache, toolResultCache, cacheWrites, now, ticks>>
            /\ UNCHANGED <<apiKey, maxContext, pc, turn, body, id, checkedAt, requestMessages,
                           assistantMessage, safetyCounter, toolIndex, toolResults, roundMemo,
                           updatedMessages, usedTokens, response, decrements, saved,
                           quotaReply, backendReply, backendRequests, inFlight,
                           roundInvocations, roundFetches, toolExecutions, usageLog>>
            /\ UNCHANGED <<historyResponse, formatter, contentReply>>

\* the completion backend gives request p its last answer. A failure is answered
\* from the catch and stores nothing; otherwise the task that handles the answer
\* runs without another await through the fallback, toAppend = [...messages,
\* assistantMessage] and conversationStore.append(id, toAppend, MAX_STORED_MESSAGES)
TurnAnswer(p, Answers) ==
    \E resp \in Answers :
        LET final == FinalMessage(resp.message)
        IN  /\ procs[p].pc = "awaitBackend"
            /\ IF ~resp.ok \/ resp.message = NoMessage
               THEN /\ procs' = [procs EXCEPT ![p].pc = "failed"]
                    /\ UNCHANGED conversationStore
               ELSE /\ procs' = [procs EXCEPT ![p].pc = "answered", ![p].final = final]
                    /\ conversationStore' =
                           StoreAppend(conversationStore, procs[p].id,
                                       procs[p].messages \o <<final>>, MAX_STORED_MESSAGES)
            /\ UNCHANGED <<tokenCheckCache, toolResultCache, cacheWrites, now, ticks>>
            /\ UNCHANGED <<apiKey, maxContext, pc, turn, body, id, checkedAt, requestMessages,
                           assistantMessage, safetyCounter, toolIndex, toolResults, roundMemo,
                           updatedMessages, usedTokens, response, decrements, saved,
                           quotaReply, backendReply, backendRequests, inFlight,
                           roundInvocations, roundFetches, toolExecutions, usageLog>>
            /\ UNCHANGED <<historyResponse, formatter, contentReply>>

StoreIds == {ClientId("c1"), ClientId("c2")}

\* a failure, a text answer, and an empty answer that gets the fallback content
StoreAnswers ==
    {Failure(0), Success(AssistantMsg(Str("answer"), <<>>), Usage(1, 0, 0)),
     Success(AssistantMsg(Str(""), <<>>), Usage(1, 0, 0))}

NextStore ==
    \/ \E p \in Procs : TurnStart(p, StoreIds)
    \/ \E p \in Procs : TurnAnswer(p, StoreAnswers)

SpecStore == InitWith(MAX_CONTEXT_MESSAGES, TRUE) /\ [][NextStore]_vars

\* request p has started a turn
Started(p) == procs[p].n > 0

\* what an answered turn appended: its incoming messages, then its answer
Block(p) == procs[p].messages \o <<procs[p].final>>

\* block is a run of consecutive messages of history
Contiguous(block, history) ==
    \E k \in 0..(Len(history) - Len(block)) : SubSeq(history, k + 1, k + Len(block)) = block

\* the step is an append of request p
Appends(p) == procs[p].pc = "awaitBackend" /\ procs'[p].pc = "answered"

\* C33: a turn leaves the history of every other conversation id as it is; a turn's
\* append adds its incoming messages and its answer, as one block, to the end of
\* what the store holds at that moment, so no append of a concurrent turn on the
\* same id is lost: the block of the last turn of each request stays in the
\* history as one contiguous run.
C33_NoLostAppend ==
    /\ [][\A p \in Procs :
              procs'[p].pc # procs[p].pc =>
                  \A i \in StoreIds :
                      i # procs'[p].id =>
                          StoreGet(conversationStore', i) = StoreGet(conversationStore, i)]_vars
    /\ [][\A p \in Procs :
              Appends(p) =>
                  StoreGet(conversationStore', procs[p].id)
                      = StoreGet(conversationStore, procs[p].id)
                            \o procs[p].messages \o <<procs'[p].final>>]_vars
    /\ [](\A p \in Procs :
              Started(p) /\ procs[p].pc = "answered" =>
                  Contiguous(Block(p), StoreGet(conversationStore, procs[p].id)))

\* two turns on the same conversation ran at the same time: both read the empty
\* history, both were answered, and the history holds the two blocks one after the
\* other
C33_Witness ==
    /\ \A p \in Procs :
           /\ Started(p)
           /\ procs[p].pc = "answered"
           /\ procs[p].id = ClientId("c1")
           /\ procs[p].existingHistory = <<>>
    /\ \/ StoreGet(conversationStore, ClientId("c1")) = Block("p1") \o Block("p2")
       \/ StoreGet(conversationStore, ClientId("c1")) = Block("p2") \o Block("p1")

====
